---- MODULE Spec2Model ----
(***************************************************************************)
(* A model of neon/layers/container.py: the layer containers (Sequential,  *)
(* Tree, MergeBroadcast, ResidualModule), LayerContainer.load_weights and  *)
(* Multicost.  Each container is one variable holding a record whose       *)
(* fields carry the names of the Python attributes.  Every container has   *)
(* a specification of its own (SpecTree, SpecResidual, ...): its Init is   *)
(* the state after construction from bounded inputs, its actions are the   *)
(* methods, and the variables of the other containers stay Idle.           *)
(*                                                                         *)
(* Tensors are modelled by one element (all the arithmetic of this file is *)
(* element-wise), floating point weights 0.0 / 1.0 by the integers 0 / 1.  *)
(***************************************************************************)
EXTENDS Integers, Sequences, FiniteSets, TLC

VARIABLES tree, res, mc, mb, sq, lw, ad, lo, gd, cn

vars == <<tree, res, mc, mb, sq, lw, ad, lo, gd, cn>>

\* The value of a container's variable in the specifications of the others.
Idle == [op |-> "idle"]

(***************************************************************************)
(* Bounds of the model.                                                    *)
(***************************************************************************)
MaxBranches == 4
NumBranchNodes == 2

(***************************************************************************)
(* Helpers on sequences.                                                   *)
(***************************************************************************)
Reverse(s) == [i \in 1..Len(s) |-> s[Len(s) + 1 - i]]

Min(a, b) == IF a < b THEN a ELSE b

(***************************************************************************)
(* Layers.  A leaf layer is external to container.py; the model keeps its  *)
(* type and, for a BranchNode, its identity (BranchNodes are compared with *)
(* `is`).                                                                  *)
(***************************************************************************)
Lyr == [type |-> "Layer", id |-> 0]
BranchNode(k) == [type |-> "BranchNode", id |-> k]
BranchNodes == {BranchNode(k) : k \in 1..NumBranchNodes}
NoneObj == [type |-> "None", id |-> 0]
InputObj(k) == [type |-> "Input", id |-> k]

\* An activation is the input it was computed from followed by the layers
\* applied to it: leaf fprop is an uninterpreted function of layer and input.
LayerFprop(l, x) == Append(x, l)

\* Sequential.fprop: thread x through every layer of self.layers, in order.
RECURSIVE SeqFprop(_, _)
SeqFprop(layers, x) ==
    IF layers = <<>> THEN x
    ELSE SeqFprop(Tail(layers), LayerFprop(Head(layers), x))

(***************************************************************************)
(* Tree                                                                    *)
(***************************************************************************)
\* The layers of a trunk: layers with every BranchNode between two of them.
Trunk == [p \in 1..(2 * NumBranchNodes + 1) |->
             IF p % 2 = 1 THEN Lyr ELSE BranchNode(p \div 2)]

\* A branch as Tree.__init__ holds it: a Sequential, here its layers list.
\* A branch rooted at a BranchNode is that node followed by one layer; any
\* other branch has the layers of a trunk.
Branch(root) == IF root.type = "BranchNode" THEN <<root, Lyr>> ELSE Trunk

\* The alphas argument of Tree.__init__: None, or a list, here of the
\* weights 1, 2, ... so that alphas[i] tells the entries apart.
NoAlphas == <<0>>
AlphaArgs == {NoAlphas} \cup {[i \in 1..n |-> i] : n \in 1..MaxBranches}

Roots == {Lyr} \cup BranchNodes

TreeInputs ==
    UNION {{[i \in 1..n |-> Branch(r[i])] : r \in [1..n -> Roots]} : n \in 1..MaxBranches}

\* The loop of Tree.__init__ that never updates next_root.
RECURSIVE BetaScanStale(_, _, _, _)
BetaScanStale(layers, i, next_root, acc) ==
    IF i = 0 THEN acc
    ELSE LET root == layers[i][1]
             beta == IF root = next_root \/ root.type # "BranchNode" THEN 1 ELSE 0
         IN  BetaScanStale(layers, i - 1, next_root, Append(acc, beta))

\* The loop of Tree.__init__ over reversed(self.layers): i runs from the last
\* branch down to the first, acc is self.betas before the final reverse().
RECURSIVE BetaScan(_, _, _, _)
BetaScan(layers, i, next_root, acc) ==
    IF i = 0 THEN acc
    ELSE LET root == layers[i][1]
             beta == IF root = next_root \/ root.type # "BranchNode" THEN 1 ELSE 0
         IN  BetaScan(layers, i - 1, root, Append(acc, beta))

\* A Tree whose shared roots never accumulate: every BranchNode root gets 0.
TreeBetasNoShare(layers) ==
    [i \in 1..Len(layers) |-> IF layers[i][1].type # "BranchNode" THEN 1 ELSE 0]

TreeBetas(layers) == Reverse(BetaScan(layers, Len(layers), NoneObj, <<>>))

\* Tree.__init__(layers, alphas=None)
TreeConstruct(layers, alphas) ==
    [layers |-> layers,
     alphas |-> IF alphas = NoAlphas THEN [i \in 1..Len(layers) |-> 1] ELSE alphas,
     betas  |-> TreeBetas(layers),
     op     |-> "init",
     errors |-> <<>>,
     bcalls |-> <<>>,
     writes |-> <<>>,
     inputs |-> <<>>,
     calls  |-> <<>>,
     ret    |-> <<>>,
     retIsList |-> FALSE]

Inputs == {<<InputObj(1)>>, <<InputObj(2)>>}
NoneInput == <<NoneObj>>

FpropCall(i, x, inference) == [branch |-> i, inputs |-> x, inference |-> inference]

\* Tree.fprop that evaluates every branch whatever the inference flag.
TreeFpropAlwaysAll(t, inputs, inference) ==
    LET n == Len(t.layers)
        x == SeqFprop(t.layers[1], inputs)
    IN  [t EXCEPT !.op = IF inference THEN "fprop_inference" ELSE "fprop_train",
                  !.inputs = inputs,
                  !.calls = <<FpropCall(1, inputs, inference)>> \o
                            [i \in 1..(n - 1) |-> FpropCall(i + 1, NoneInput, FALSE)],
                  !.ret = <<x>> \o [i \in 1..(n - 1) |-> SeqFprop(t.layers[i + 1], NoneInput)],
                  !.retIsList = TRUE]

\* Tree.fprop(inputs, inference): the record after the call; inputs is the
\* argument of the call, calls lists the branch fprop calls in the order
\* made, ret the returned value (a list of outputs when retIsList, else the
\* one output ret[1]).
TreeFprop(t, inputs, inference) ==
    LET n == Len(t.layers)
        x == SeqFprop(t.layers[1], inputs)
    IN  IF inference
        THEN [t EXCEPT !.op = "fprop_inference",
                       !.inputs = inputs,
                       !.calls = <<FpropCall(1, inputs, inference)>>,
                       !.ret = <<x>>,
                       !.retIsList = FALSE]
        ELSE [t EXCEPT !.op = "fprop_train",
                       !.inputs = inputs,
                       !.calls = <<FpropCall(1, inputs, inference)>> \o
                                 [i \in 1..(n - 1) |-> FpropCall(i + 1, NoneInput, FALSE)],
                       !.ret = <<x>> \o
                               [i \in 1..(n - 1) |-> SeqFprop(t.layers[i + 1], NoneInput)],
                       !.retIsList = TRUE]

\* The position in a Sequential's layers (given by their types) of the
\* prev_layer of the layer at position p, as Sequential.configure(in_obj)
\* leaves it; 0 is an in_obj from outside.  With an in_obj every layer of
\* self.layers is configured on the one before it; without one (None) only
\* the layers that are not BranchNodes are, the first of them on
\* self.layers[0].
PrevPos(types, p, has_in_obj) ==
    IF has_in_obj THEN p - 1
    ELSE LET before == {q \in 1..(p - 1) : types[q] # "BranchNode"}
         IN  IF before = {} THEN 1 ELSE CHOOSE q \in before : \A r \in before : r <= q

PrevType(types, p, has_in_obj) ==
    IF PrevPos(types, p, has_in_obj) = 0 THEN "Input"
    ELSE types[PrevPos(types, p, has_in_obj)]

\* self._layers[0]: the position of the first layer that is not a BranchNode.
FirstLayerPos(types) ==
    CHOOSE p \in 1..Len(types) :
        types[p] # "BranchNode" /\ \A q \in 1..(p - 1) : types[q] = "BranchNode"

\* One l.bprop call of Sequential.bprop: the layer's position, the error it
\* is given (from: the position of the layer whose bprop returned it, 0 for
\* the caller's error) and the alpha and beta it is called with.
LayerBpropCall(p, from, alpha, beta) ==
    [pos |-> p, from |-> from, alpha |-> alpha, beta |-> beta]

\* Sequential.bprop that gives alpha and beta to the first layer only.
SeqBpropCallsFirstOnly(types, has_in_obj, alpha, beta) ==
    LET n == Len(types)
        G[p \in 1..(n + 1)] ==
            IF p = n + 1 THEN <<>>
            ELSE IF types[p] = "BranchNode" THEN G[p + 1]
            ELSE LET from == IF G[p + 1] = <<>> THEN 0 ELSE G[p + 1][Len(G[p + 1])].pos
                 IN  IF p = FirstLayerPos(types)
                     THEN Append(G[p + 1], LayerBpropCall(p, from, alpha, beta))
                     ELSE Append(G[p + 1], LayerBpropCall(p, from, 1, 0))
    IN  G[1]

\* Sequential.bprop that gives alpha and beta to every layer.
SeqBpropCallsAlways(types, has_in_obj, alpha, beta) ==
    LET n == Len(types)
        G[p \in 1..(n + 1)] ==
            IF p = n + 1 THEN <<>>
            ELSE IF types[p] = "BranchNode" THEN G[p + 1]
            ELSE LET from == IF G[p + 1] = <<>> THEN 0 ELSE G[p + 1][Len(G[p + 1])].pos
                 IN  Append(G[p + 1], LayerBpropCall(p, from, alpha, beta))
    IN  G[1]

\* Sequential.bprop(error, alpha, beta): the l.bprop calls in the order
\* made, over reversed(self._layers).
SeqBpropCalls(types, has_in_obj, alpha, beta) ==
    LET n == Len(types)
        G[p \in 1..(n + 1)] ==
            IF p = n + 1 THEN <<>>
            ELSE IF types[p] = "BranchNode" THEN G[p + 1]
            ELSE LET from == IF G[p + 1] = <<>> THEN 0 ELSE G[p + 1][Len(G[p + 1])].pos
                 IN  IF PrevType(types, p, has_in_obj) = "BranchNode"
                           \/ p = FirstLayerPos(types)
                     THEN Append(G[p + 1], LayerBpropCall(p, from, alpha, beta))
                     ELSE Append(G[p + 1], LayerBpropCall(p, from, 1, 0))
    IN  G[1]

Types(layers) == [p \in 1..Len(layers) |-> layers[p].type]

\* The errors argument of Tree.bprop: one error per branch, error i being i.
Errors(n) == [i \in 1..n |-> i]

BranchBpropCall(i, e, a, b) == [branch |-> i, error |-> e, alpha |-> a, beta |-> b]

\* The gradient buffer a layer's bprop writes: the deltas of the BranchNode
\* it follows, which it shares, or its own.
DeltasOf(layers, i, p, has_in_obj) ==
    IF PrevType(Types(layers[i]), p, has_in_obj) = "BranchNode"
    THEN layers[i][PrevPos(Types(layers[i]), p, has_in_obj)]
    ELSE [type |-> "own", id |-> <<i, p>>]

\* The writes of branch i's bprop(e, alpha, beta) into gradient buffers.
\* Tree.configure gives the trunk the input and every other branch None.
BranchWrites(layers, i, alpha, beta) ==
    LET calls == SeqBpropCalls(Types(layers[i]), i = 1, alpha, beta)
    IN  [k \in 1..Len(calls) |->
            [branch |-> i, pos |-> calls[k].pos, alpha |-> calls[k].alpha,
             beta |-> calls[k].beta,
             deltas |-> DeltasOf(layers, i, calls[k].pos, i = 1)]]

\* zip(self.layers, error, self.alphas, self.betas): as long as the shortest.
TreeZipLen(t, error) ==
    Min(Min(Len(t.layers), Len(error)), Min(Len(t.alphas), Len(t.betas)))

\* Tree.bprop that runs the branches first to last.
TreeBpropForward(t, error) ==
    LET k == TreeZipLen(t, error)
        W[j \in 0..k] ==
            IF j = 0 THEN <<>>
            ELSE W[j - 1] \o BranchWrites(t.layers, j, t.alphas[j], t.betas[j])
    IN  [t EXCEPT !.op = "bprop", !.errors = error,
                  !.bcalls = [j \in 1..k |->
                                 BranchBpropCall(j, error[j], t.alphas[j], t.betas[j])],
                  !.writes = W[k]]

\* Tree.bprop(error): the branch bprop calls over the reversed zip, in the
\* order made, and the writes they make into gradient buffers.
TreeBprop(t, error) ==
    LET k == TreeZipLen(t, error)
        br(j) == k + 1 - j
        W[j \in 0..k] ==
            IF j = 0 THEN <<>>
            ELSE W[j - 1] \o BranchWrites(t.layers, br(j), t.alphas[br(j)], t.betas[br(j)])
    IN  [t EXCEPT !.op = "bprop", !.errors = error,
                  !.bcalls = [j \in 1..k |->
                                 BranchBpropCall(br(j), error[br(j)], t.alphas[br(j)],
                                                 t.betas[br(j)])],
                  !.writes = W[k]]

TreeInit ==
    /\ \E layers \in TreeInputs, alphas \in AlphaArgs :
          tree = TreeConstruct(layers, alphas)
    /\ res = Idle /\ mc = Idle /\ mb = Idle /\ sq = Idle /\ lw = Idle /\ ad = Idle
    /\ lo = Idle /\ gd = Idle /\ cn = Idle

TreeFpropAct ==
    /\ \E inputs \in Inputs, inference \in BOOLEAN :
          tree' = TreeFprop(tree, inputs, inference)
    /\ UNCHANGED <<res, mc, mb, sq, lw, ad, lo, gd, cn>>

\* Tree.bprop(errors) with one error per branch.
TreeBpropAct ==
    /\ tree' = TreeBprop(tree, Errors(Len(tree.layers)))
    /\ UNCHANGED <<res, mc, mb, sq, lw, ad, lo, gd, cn>>

TreeNext == TreeFpropAct \/ TreeBpropAct

SpecTree == TreeInit /\ [][TreeNext]_vars

TreeRoot(i) == tree.layers[i][1]

\* The branch list the docstring of Tree asks for: the trunk, which does not
\* start at a BranchNode, then auxiliary branches that each start at one.
TrunkFirst ==
    /\ TreeRoot(1).type # "BranchNode"
    /\ \A i \in 2..Len(tree.layers) : TreeRoot(i).type = "BranchNode"

\* Branches that share a root are next to each other in the list.
RootsContiguous ==
    \A i, j, k \in 1..Len(tree.layers) :
        (i < j /\ j < k /\ TreeRoot(i) = TreeRoot(k)) => TreeRoot(j) = TreeRoot(i)

OneInitializerPerRoot ==
    /\ tree.betas[1] = 1
    /\ \A b \in BranchNodes :
          (\E i \in 1..Len(tree.layers) : TreeRoot(i) = b) =>
              /\ Cardinality({i \in 1..Len(tree.layers) :
                                 TreeRoot(i) = b /\ tree.betas[i] = 0}) = 1
              /\ \A i \in 1..Len(tree.layers) :
                    TreeRoot(i) = b => tree.betas[i] \in {0, 1}

\* C1 (as stated): after Tree construction from any branch list, trunk first
\* and the auxiliary branches in any order, every BranchNode that roots a
\* branch has exactly one branch with beta 0.0 and the rest 1.0, and the
\* trunk has beta 1.0.
C1_AnyOrder == TrunkFirst => OneInitializerPerRoot

\* C1 (amended): the same, for branch lists in which the branches that share
\* a root BranchNode are adjacent.
C1_ContiguousRoots == (TrunkFirst /\ RootsContiguous) => OneInitializerPerRoot

\* C1 witness: a tree with two adjacent branches on one BranchNode and a
\* third branch on another.
C1_Witness ==
    /\ TrunkFirst /\ RootsContiguous
    /\ Len(tree.layers) = 4
    /\ TreeRoot(2) = TreeRoot(3) /\ TreeRoot(3) # TreeRoot(4)

\* C2: fprop with inference=True calls fprop on the trunk only and returns
\* its single output; with inference=False it calls the trunk on the real
\* input, then every auxiliary branch in order on None, and returns the list
\* of all outputs in branch order.
C2_FpropBranches ==
    LET n == Len(tree.layers) IN
    /\ tree.op = "fprop_inference" =>
          /\ tree.calls = <<FpropCall(1, tree.inputs, TRUE)>>
          /\ ~tree.retIsList
          /\ tree.ret = <<SeqFprop(tree.layers[1], tree.inputs)>>
    /\ tree.op = "fprop_train" =>
          /\ Len(tree.calls) = n
          /\ \A i \in 1..n : tree.calls[i].branch = i
          /\ tree.calls[1].inputs = tree.inputs
          /\ \A i \in 2..n : tree.calls[i].inputs = NoneInput
          /\ tree.retIsList /\ Len(tree.ret) = n
          /\ \A i \in 1..n :
                tree.ret[i] = SeqFprop(tree.layers[i], tree.calls[i].inputs)

\* C2 witness: a tree with auxiliary branches after an inference fprop.
C2_Witness == tree.op = "fprop_inference" /\ Len(tree.layers) >= 3

\* The writes of the last bprop into the gradient buffer of BranchNode b,
\* in the order made.
TreeNodeWrites(b) ==
    LET into(w) == w.deltas = b IN SelectSeq(tree.writes, into)

TreeBranchesAt(b) == {i \in 2..Len(tree.layers) : TreeRoot(i) = b}

\* The alphas list has an entry for every branch.
AlphasPerBranch == Len(tree.alphas) >= Len(tree.layers)

\* In the last bprop the buffer of every BranchNode that roots a branch was
\* first written with beta 0.0, by the last branch rooted there, and then
\* with beta 1.0 by every other branch rooted there and by the trunk.
OneInitializingWrite ==
    \A b \in BranchNodes :
        TreeBranchesAt(b) # {} =>
            LET W == TreeNodeWrites(b) IN
            /\ Len(W) = Cardinality(TreeBranchesAt(b)) + 1
            /\ {W[k].branch : k \in 1..Len(W)} = TreeBranchesAt(b) \cup {1}
            /\ W[1].beta = 0
            /\ W[1].branch = CHOOSE i \in TreeBranchesAt(b) :
                                 \A j \in TreeBranchesAt(b) : j <= i
            /\ \A k \in 2..Len(W) : W[k].beta = 1

C15_BetaByPreviousRoot ==
    \A i \in 1..Len(tree.layers) :
        tree.betas[i] =
            IF TreeRoot(i).type # "BranchNode" \/ (i > 1 /\ TreeRoot(i) = TreeRoot(i - 1))
            THEN 1 ELSE 0

\* C15 (amended): branch i has beta 1.0 if its root is the same BranchNode
\* instance as the root of branch i + 1, the adjacent branch away from the
\* trunk, or if its root is not a BranchNode; otherwise 0.0.
C15_BetaByNextRoot ==
    \A i \in 1..Len(tree.layers) :
        tree.betas[i] =
            IF TreeRoot(i).type # "BranchNode"
                  \/ (i < Len(tree.layers) /\ TreeRoot(i) = TreeRoot(i + 1))
            THEN 1 ELSE 0

\* C15 witness: two adjacent branches on one BranchNode; the first of them
\* accumulates, the second initializes.
C15_Witness ==
    /\ tree.op = "init" /\ Len(tree.layers) = 3
    /\ TreeRoot(1).type # "BranchNode"
    /\ TreeRoot(2).type = "BranchNode" /\ TreeRoot(2) = TreeRoot(3)
    /\ tree.betas = <<1, 1, 0>>

\* The last bprop called the first k branches, last first and trunk last,
\* each once, branch i with error i, alphas[i] and betas[i].
TreeBpropCalled(k) ==
    /\ Len(tree.bcalls) = k
    /\ \A j \in 1..k :
          LET i == k + 1 - j IN
          tree.bcalls[j] =
              BranchBpropCall(i, tree.errors[i], tree.alphas[i], tree.betas[i])

\* C16 (as stated): bprop with one error per branch calls bprop on every
\* branch once, last branch first and trunk last, branch i with error i,
\* alphas[i] and betas[i], whatever alphas list was given at construction.
C16_EveryBranchCalled ==
    tree.op = "bprop" => TreeBpropCalled(Len(tree.layers))

\* C16 (amended): the same when alphas has an entry for every branch; with
\* a shorter list only the branches that have an alpha are called.
C16_BranchesWithAlphaCalled ==
    tree.op = "bprop" => TreeBpropCalled(Min(Len(tree.layers), Len(tree.alphas)))

\* C16 witness: a bprop through three branches with alphas given for each.
C16_Witness ==
    /\ tree.op = "bprop" /\ Len(tree.layers) = 3 /\ tree.alphas = <<1, 2, 3>>
    /\ Len(tree.bcalls) = 3 /\ tree.bcalls[1].branch = 3 /\ tree.bcalls[1].alpha = 3

(***************************************************************************)
(* Leaf layers with buffers.  The leaf Layer class (neon/layers/layer.py)  *)
(* is outside container.py; its methods follow the contract the            *)
(* containers rely on: fprop overwrites the layer's output buffer, bprop   *)
(* writes alpha * gradient + beta * deltas into the layer's gradient       *)
(* buffer, and set_deltas takes the first buffer of the pool and reverses  *)
(* the pool.  A layer's transform is multiplication by its weight w.       *)
(***************************************************************************)
MaxWeight == 2
MaxVal == 2
MaxAlpha == 2

Weights == 0..MaxWeight
Values == 0..MaxVal
Alphas == 1..MaxAlpha
Betas == {0, 1}

Conv(w) == [type |-> "Convolution", w |-> w, owns_output |-> TRUE]
Activation(w) == [type |-> "Activation", w |-> w, owns_output |-> FALSE]

\* Layer.fprop(inputs): the value written over the layer's output buffer.
LeafFprop(l, x) == l.w * x

\* Layer.fprop(inputs, beta=1.0): the value added into the output buffer.
LeafFpropAcc(l, x, beta, old) == l.w * x + beta * old

\* Layer.bprop(error, alpha, beta): the new content of the layer's deltas.
LeafBprop(l, error, alpha, beta, old) == alpha * (l.w * error) + beta * old

\* Layer.set_deltas(delta_buffers): the buffer taken; the pool is reversed.
LeafSetDeltas(delta_buffers) == delta_buffers[1]

(***************************************************************************)
(* Sequential.allocate / allocate_deltas / fprop / bprop over buffers.     *)
(* Output buffers are numbered 1..n for the layers' own buffers and n+1    *)
(* for the buffer handed in as shared_outputs; gradient buffers are the    *)
(* entries of the delta pool.                                              *)
(***************************************************************************)
LastOwner(layers) ==
    LET owners == {i \in 1..Len(layers) : layers[i].owns_output}
    IN  CHOOSE i \in owners : \A j \in owners : j <= i

\* Sequential.allocate(shared_outputs): which buffer each layer writes.  The
\* last layer that owns its output gets the shared buffer, every other
\* owner a buffer of its own, and a layer that owns none works in place on
\* its predecessor's.
RECURSIVE SeqAllocate(_, _)
SeqAllocate(layers, i) ==
    IF i = 0 THEN <<>>
    ELSE LET before == SeqAllocate(layers, i - 1)
             buf == IF i = LastOwner(layers) THEN Len(layers) + 1
                    ELSE IF layers[i].owns_output THEN i
                    ELSE before[i - 1]
         IN  Append(before, buf)

\* Sequential.allocate_deltas(global_deltas) with a supplied pool: every
\* layer in turn takes the first buffer of the pool and reverses the pool.
SeqDeltas(n, global_deltas) ==
    [i \in 1..n |-> IF i % 2 = 1 THEN global_deltas[1]
                    ELSE Reverse(global_deltas)[1]]

\* Sequential.fprop over buffers: obuf after the layers i..n have run on x.
RECURSIVE SeqFpropBuf(_, _, _, _, _)
SeqFpropBuf(layers, outs, i, x, obuf) ==
    IF i > Len(layers) THEN obuf
    ELSE LET y == LeafFprop(layers[i], x)
         IN  SeqFpropBuf(layers, outs, i + 1, y, [obuf EXCEPT ![outs[i]] = y])

PrevIsBranchNode(layers, i) == i > 1 /\ layers[i - 1].type = "BranchNode"

\* Sequential.bprop(error, alpha, beta): the pool after the layers i..1 have
\* run, last first.  The first layer and a layer that follows a BranchNode
\* get alpha and beta, every other layer the defaults 1.0 and 0.0.
RECURSIVE SeqBprop(_, _, _, _, _, _, _)
SeqBprop(layers, deltas, i, error, alpha, beta, pool) ==
    IF i = 0 THEN pool
    ELSE LET d == deltas[i]
             new == IF PrevIsBranchNode(layers, i) \/ i = 1
                    THEN LeafBprop(layers[i], error, alpha, beta, pool[d])
                    ELSE LeafBprop(layers[i], error, 1, 0, pool[d])
         IN  SeqBprop(layers, deltas, i - 1, new, alpha, beta, [pool EXCEPT ![d] = new])

(***************************************************************************)
(* ResidualModule                                                          *)
(***************************************************************************)
NoSkip == [type |-> "None", w |-> 0, owns_output |-> FALSE]

\* The trunks ResidualModule.__init__ accepts: it reads convlayers[-1] and
\* convlayers[-2], so at least two Convolutions; the Sequential it wraps
\* them in asserts that the first layer owns its output.
TrunkShapes ==
    {<<"Convolution", "Convolution">>,
     <<"Convolution", "Convolution", "Activation">>,
     <<"Convolution", "Activation", "Convolution">>}

ResTrunks ==
    UNION {{[i \in 1..Len(sh) |-> IF sh[i] = "Convolution" THEN Conv(w[i])
                                                             ELSE Activation(2)] :
                w \in [1..Len(sh) -> Weights]} : sh \in TrunkShapes}

Projections == {"None", "Identity", "Other"}

\* ResidualModule.__init__(layers, projection): layers is the trunk
\* Sequential, followed by the skip layer when a projection other than the
\* Identity one is given (inLayers).
ResConstruct(trunk, projection, w) ==
    [layers |-> trunk,
     skip_layer |-> IF projection = "None" THEN NoSkip ELSE Conv(w),
     inLayers |-> projection \notin {"None", "Identity"},
     allocated |-> FALSE,
     outs |-> <<>>,
     obuf |-> <<>>,
     hasDeltas |-> FALSE,
     deltas |-> 0,
     ldeltas |-> <<>>,
     pool |-> <<>>,
     inputs |-> 0, error |-> 0, alpha |-> 1, beta |-> 0,
     bcalls |-> <<>>,
     op |-> "init", ret |-> "none"]

\* ResidualModule.allocate: self.outputs is buffer n+1, with whatever it
\* held before (stale); the trunk allocates into it.
ResAllocate(r, stale) ==
    LET n == Len(r.layers) IN
    [r EXCEPT !.allocated = TRUE,
              !.outs = SeqAllocate(r.layers, n),
              !.obuf = [i \in 1..(n + 1) |-> IF i = n + 1 THEN stale ELSE 0],
              !.op = "allocate", !.ret = "none"]

\* ResidualModule.set_deltas(delta_buffers), for a pool of 4: the trunk gets
\* delta_buffers[1:3], its first layer and the module itself the buffer
\* delta_buffers[0].  pool is the content of the 4 buffers.
ResSetDeltas(r, delta_buffers, content) ==
    LET n == Len(r.layers)
        inner == SeqDeltas(n, SubSeq(delta_buffers, 2, 3))
    IN  [r EXCEPT !.hasDeltas = TRUE,
                  !.ldeltas = [inner EXCEPT ![1] = LeafSetDeltas(SubSeq(delta_buffers, 1, 1))],
                  !.deltas = delta_buffers[1],
                  !.pool = content,
                  !.op = "set_deltas", !.ret = "none"]

\* ResidualModule.fprop without the final in-place addition of the input.
ResFpropNoAdd(r, inputs) ==
    LET n == Len(r.layers)
        t == SeqFpropBuf(r.layers, r.outs, 1, inputs, r.obuf)
    IN  [r EXCEPT !.inputs = inputs, !.obuf = t, !.op = "fprop", !.ret = "outputs"]

\* ResidualModule.fprop(inputs): the trunk runs, then the skip layer adds
\* into self.outputs (beta=1.0) or, without one, the input is added in place.
ResFprop(r, inputs) ==
    LET n == Len(r.layers)
        t == SeqFpropBuf(r.layers, r.outs, 1, inputs, r.obuf)
        out == IF r.skip_layer.type # "None"
               THEN LeafFpropAcc(r.skip_layer, inputs, 1, t[n + 1])
               ELSE t[n + 1] + inputs
    IN  [r EXCEPT !.inputs = inputs,
                  !.obuf = [t EXCEPT ![n + 1] = out],
                  !.op = "fprop", !.ret = "outputs"]

\* One statement of ResidualModule.bprop: who acts (the skip layer's bprop,
\* the copy into self.deltas, or the trunk's bprop), on which error, and
\* with which alpha and beta (the copy has none: 1 and 0).
ResStep(by, error, alpha, beta) == [by |-> by, error |-> error, alpha |-> alpha, beta |-> beta]

\* The first statement: skip_layer.bprop(error, alpha=alpha), beta being
\* the default 0.0, or self.deltas[:] = error.
ResSkipStep(r, error, alpha) ==
    IF r.skip_layer.type # "None" THEN ResStep("skip_layer", error, alpha, 0)
    ELSE ResStep("copy", error, 1, 0)

\* ResidualModule.bprop that hands the caller's beta on to the trunk.
ResBpropCallerBeta(r, error, alpha, beta) ==
    LET n == Len(r.layers)
        p1 == IF r.skip_layer.type # "None"
              THEN [r.pool EXCEPT ![r.deltas] =
                        LeafBprop(r.skip_layer, error, alpha, 0, r.pool[r.deltas])]
              ELSE [r.pool EXCEPT ![r.deltas] = error]
    IN  [r EXCEPT !.error = error, !.alpha = alpha, !.beta = beta,
                  !.pool = SeqBprop(r.layers, r.ldeltas, n, error, alpha, beta, p1),
                  !.bcalls = <<ResSkipStep(r, error, alpha), ResStep("trunk", error, alpha, beta)>>,
                  !.op = "bprop", !.ret = "deltas"]

\* ResidualModule.bprop that back-propagates the trunk before it writes the
\* skip path.
ResBpropTrunkFirst(r, error, alpha, beta) ==
    LET n == Len(r.layers)
        p1 == SeqBprop(r.layers, r.ldeltas, n, error, alpha, 1, r.pool)
    IN  [r EXCEPT !.error = error, !.alpha = alpha, !.beta = beta,
                  !.pool = IF r.skip_layer.type # "None"
                           THEN [p1 EXCEPT ![r.deltas] =
                                    LeafBprop(r.skip_layer, error, alpha, 0, p1[r.deltas])]
                           ELSE [p1 EXCEPT ![r.deltas] = error],
                  !.bcalls = <<ResStep("trunk", error, alpha, 1), ResSkipStep(r, error, alpha)>>,
                  !.op = "bprop", !.ret = "deltas"]

\* ResidualModule.bprop(error, alpha, beta): the skip layer's bprop, or the
\* copy of error into self.deltas, then the trunk's bprop with beta=1.0.
ResBprop(r, error, alpha, beta) ==
    LET n == Len(r.layers)
        p1 == IF r.skip_layer.type # "None"
              THEN [r.pool EXCEPT ![r.deltas] =
                        LeafBprop(r.skip_layer, error, alpha, 0, r.pool[r.deltas])]
              ELSE [r.pool EXCEPT ![r.deltas] = error]
    IN  [r EXCEPT !.error = error, !.alpha = alpha, !.beta = beta,
                  !.pool = SeqBprop(r.layers, r.ldeltas, n, error, alpha, 1, p1),
                  !.bcalls = <<ResSkipStep(r, error, alpha), ResStep("trunk", error, alpha, 1)>>,
                  !.op = "bprop", !.ret = "deltas"]

ResInit ==
    /\ \E trunk \in ResTrunks, projection \in Projections, w \in Weights :
          res = ResConstruct(trunk, IF w = 0 THEN "None" ELSE projection, w)
    /\ tree = Idle /\ mc = Idle /\ mb = Idle /\ sq = Idle /\ lw = Idle /\ ad = Idle
    /\ lo = Idle /\ gd = Idle /\ cn = Idle

ResAllocateAct ==
    /\ ~res.allocated
    /\ \E stale \in Values : res' = ResAllocate(res, stale)
    /\ UNCHANGED <<tree, mc, mb, sq, lw, ad, lo, gd, cn>>

\* The pool arrives in the order the enclosing Sequential left it in: as
\* created or reversed.
ResSetDeltasAct ==
    /\ ~res.hasDeltas
    /\ \E delta_buffers \in {<<1, 2, 3, 4>>, <<4, 3, 2, 1>>} :
          res' = ResSetDeltas(res, delta_buffers, <<0, 0, 0, 0>>)
    /\ UNCHANGED <<tree, mc, mb, sq, lw, ad, lo, gd, cn>>

ResFpropAct ==
    /\ res.allocated
    /\ \E inputs \in Values : res' = ResFprop(res, inputs)
    /\ UNCHANGED <<tree, mc, mb, sq, lw, ad, lo, gd, cn>>

ResBpropAct ==
    /\ res.hasDeltas
    /\ \E error \in Values, alpha \in Alphas, beta \in Betas :
          res' = ResBprop(res, error, alpha, beta)
    /\ UNCHANGED <<tree, mc, mb, sq, lw, ad, lo, gd, cn>>

ResNext == ResAllocateAct \/ ResSetDeltasAct \/ ResFpropAct \/ ResBpropAct

SpecResidual == ResInit /\ [][ResNext]_vars

\* What the trunk computes and back-propagates: the product of its weights.
RECURSIVE WeightProduct(_)
WeightProduct(layers) ==
    IF layers = <<>> THEN 1 ELSE Head(layers).w * WeightProduct(Tail(layers))

NoProjection == res.skip_layer.type = "None"

\* C3 (as stated): without a projection bprop(error) returns self.deltas and
\* that buffer holds the unmodified incoming error.
C3_DeltasEqualError ==
    (res.op = "bprop" /\ NoProjection) =>
        (res.ret = "deltas" /\ res.pool[res.deltas] = res.error)

\* C3 (amended): without a projection bprop(error, alpha) returns
\* self.deltas, which holds the incoming error (the skip path) plus alpha
\* times the gradient the trunk back-propagates from that same error.
C3_DeltasErrorPlusTrunk ==
    (res.op = "bprop" /\ NoProjection) =>
        /\ res.ret = "deltas"
        /\ res.pool[res.deltas] =
              res.error + res.alpha * WeightProduct(res.layers) * res.error

\* C3 witness: a bprop without projection, called with beta 0.0, through a
\* trunk whose gradient is not zero.
C3_Witness ==
    /\ res.op = "bprop" /\ NoProjection /\ res.beta = 0
    /\ res.error > 0 /\ WeightProduct(res.layers) > 0

\* C4: without a projection fprop(x) leaves trunk(x) + x in self.outputs and
\* returns that buffer, on every call.
C4_OutputsTrunkPlusInput ==
    (res.op = "fprop" /\ NoProjection) =>
        /\ res.ret = "outputs"
        /\ res.obuf[Len(res.layers) + 1] =
              WeightProduct(res.layers) * res.inputs + res.inputs

\* C4 witness: an fprop without projection on a buffer that held another
\* value before the call.
C4_Witness ==
    /\ res.op = "fprop" /\ NoProjection /\ res.inputs > 0
    /\ WeightProduct(res.layers) > 0
    /\ res.hasDeltas /\ res.pool[res.deltas] > 0


\* What the skip path contributes to self.deltas: the skip layer's
\* gradient of the error, weighted by alpha, or the error itself.
SkipContribution ==
    IF NoProjection THEN res.error
    ELSE res.alpha * (res.skip_layer.w * res.error)

\* C19: bprop(error, alpha, beta) first writes the skip path (the skip
\* layer's bprop on error when there is a skip layer, else the copy of
\* error into self.deltas), then back-propagates the trunk on the same error
\* with the caller's alpha and beta 1.0; self.deltas ends as the skip
\* contribution plus alpha times the trunk's gradient, whatever the caller's
\* beta, and is what bprop returns.
C19_SkipThenTrunk ==
    res.op = "bprop" =>
        /\ Len(res.bcalls) = 2
        /\ res.bcalls[1].by = (IF NoProjection THEN "copy" ELSE "skip_layer")
        /\ res.bcalls[1].error = res.error
        /\ res.bcalls[2] = [by |-> "trunk", error |-> res.error,
                            alpha |-> res.alpha, beta |-> 1]
        /\ res.pool[res.deltas] =
              SkipContribution + res.alpha * WeightProduct(res.layers) * res.error
        /\ res.ret = "deltas"

\* C19 witness: a bprop with a skip layer, alpha 2 and the caller's beta
\* 0.0, where skip path and trunk both contribute.
C19_Witness ==
    /\ res.op = "bprop" /\ ~NoProjection /\ res.beta = 0 /\ res.alpha = 2
    /\ res.error > 0 /\ WeightProduct(res.layers) > 0 /\ res.skip_layer.w > 0


(***************************************************************************)
(* Multicost                                                               *)
(***************************************************************************)
MaxCosts == 2
MaxPred == 1

Preds == 0..MaxPred

\* The cost function of the i-th cost on a prediction and a target (the
\* Cost classes are outside container.py): costs differ from each other and
\* depend on both arguments.
CostFn(i, p, t) == i * (p - t) * (p - t) + i + p

\* An argument that is a list (or tuple) of tensors, or one tensor.
ListArg(vals) == [isList |-> TRUE, vals |-> vals]
OneArg(v) == [isList |-> FALSE, vals |-> <<v>>]

MCArgs == {OneArg(v) : v \in Preds} \cup
          {ListArg(vals) : vals \in UNION {[1..n -> Preds] : n \in 1..MaxCosts}}

MCWeightArgs ==
    {OneArg(0)} \cup
    {ListArg(w) : w \in UNION {[1..n -> 1..MaxWeight] : n \in 1..MaxCosts}}

\* Multicost.__init__(costs, weights): weights (OneArg stands for None)
\* defaults to 1.0 per cost.  outputs[i] is the content of the i-th cost's
\* buffer.
MCConstruct(n, weights) ==
    [costs |-> [i \in 1..n |-> [costfunc |-> i]],
     weights |-> IF weights.isList THEN weights.vals ELSE [i \in 1..n |-> 1],
     outputs |-> [i \in 1..n |-> 0],
     inputs |-> OneArg(0), targets |-> OneArg(0),
     calls |-> <<>>, op |-> "init", ret |-> 0]

CostCall(i, p, t) == [cost |-> i, inputs |-> p, targets |-> t]

\* zip(self.costs, inputs, ltargets): the triples up to the shortest list.
ZipLen(m, inputs, ltargets) == Min(Len(m.costs), Min(Len(inputs), Len(ltargets)))

\* reduce(add, [w * c for w, c in zip(self.weights, costvals)])
RECURSIVE WeightedSum(_, _, _)
WeightedSum(weights, costvals, k) ==
    IF k = 1 THEN weights[1] * costvals[1]
    ELSE WeightedSum(weights, costvals, k - 1) + weights[k] * costvals[k]

\* Multicost.get_cost that sums the costs without their weights.
MCGetCostUnweighted(m, inputs, targets) ==
    LET n == Len(m.costs)
        ltargets == IF targets.isList THEN targets.vals
                    ELSE [i \in 1..n |-> targets.vals[1]]
        k == ZipLen(m, inputs.vals, ltargets)
        costvals == [i \in 1..k |-> CostFn(i, inputs.vals[i], ltargets[i])]
    IN  [m EXCEPT !.inputs = inputs, !.targets = targets, !.op = "get_cost",
                  !.calls = [i \in 1..k |-> CostCall(i, inputs.vals[i], ltargets[i])],
                  !.outputs = [i \in 1..n |->
                                  IF i = 1 THEN WeightedSum([j \in 1..k |-> 1], costvals, k)
                                  ELSE IF i <= k THEN costvals[i] ELSE m.outputs[i]],
                  !.ret = 1]

\* Multicost.get_cost(inputs, targets): the record after the call.  calls
\* lists the get_cost calls made on the costs, ret is the index of the cost
\* whose buffer is returned.
MCGetCost(m, inputs, targets) ==
    LET n == Len(m.costs) IN
    IF ~inputs.isList
    THEN [m EXCEPT !.inputs = inputs, !.targets = targets, !.op = "get_cost",
                   !.calls = <<CostCall(1, inputs.vals[1], targets.vals[1])>>,
                   !.outputs[1] = CostFn(1, inputs.vals[1], targets.vals[1]),
                   !.ret = 1]
    ELSE LET ltargets == IF targets.isList THEN targets.vals
                         ELSE [i \in 1..n |-> targets.vals[1]]
             k == ZipLen(m, inputs.vals, ltargets)
             costvals == [i \in 1..k |-> CostFn(i, inputs.vals[i], ltargets[i])]
             kw == Min(Len(m.weights), k)
         IN  [m EXCEPT !.inputs = inputs, !.targets = targets, !.op = "get_cost",
                       !.calls = [i \in 1..k |-> CostCall(i, inputs.vals[i], ltargets[i])],
                       !.outputs = [i \in 1..n |->
                                       IF i = 1 THEN WeightedSum(m.weights, costvals, kw)
                                       ELSE IF i <= k THEN costvals[i] ELSE m.outputs[i]],
                       !.ret = 1]

MCInit ==
    /\ \E n \in 1..MaxCosts, weights \in MCWeightArgs : mc = MCConstruct(n, weights)
    /\ tree = Idle /\ res = Idle /\ mb = Idle /\ sq = Idle /\ lw = Idle /\ ad = Idle
    /\ lo = Idle /\ gd = Idle /\ cn = Idle

\* One get_cost per constructed Multicost: the call reads nothing that an
\* earlier call left in the buffers.  A single (non-list) input comes with a
\* single target.
MCGetCostAct ==
    /\ mc.op = "init"
    /\ \E inputs \in MCArgs, targets \in MCArgs :
          /\ inputs.isList \/ ~targets.isList
          /\ mc' = MCGetCost(mc, inputs, targets)
    /\ UNCHANGED <<tree, res, mb, sq, lw, ad, lo, gd, cn>>

MCNext == MCGetCostAct

SpecMulticost == MCInit /\ [][MCNext]_vars

\* The target of cost i in the last call.
MCTarget(i) == IF mc.targets.isList THEN mc.targets.vals[i] ELSE mc.targets.vals[1]

\* One input and one weight per cost, and one target per cost when the
\* targets are a list.
MCMatched ==
    /\ Len(mc.inputs.vals) = Len(mc.costs)
    /\ Len(mc.weights) = Len(mc.costs)
    /\ mc.targets.isList => Len(mc.targets.vals) = Len(mc.costs)

RECURSIVE MCExpected(_)
MCExpected(I) ==
    IF I = {} THEN 0
    ELSE LET i == CHOOSE j \in I : TRUE
         IN  mc.weights[i] * CostFn(i, mc.inputs.vals[i], MCTarget(i)) + MCExpected(I \ {i})

\* C5: get_cost on a list of inputs returns the first cost's buffer, which
\* then holds the sum over the costs of weight times cost of (input, target),
\* the target being the shared one or the cost's own; on a single input the
\* call is the first cost's get_cost alone.
C5_WeightedSumInFirstBuffer ==
    /\ (mc.op = "get_cost" /\ mc.inputs.isList /\ MCMatched) =>
          /\ mc.ret = 1
          /\ mc.outputs[1] = MCExpected(1..Len(mc.costs))
    /\ (mc.op = "get_cost" /\ ~mc.inputs.isList) =>
          /\ mc.ret = 1
          /\ mc.calls = <<CostCall(1, mc.inputs.vals[1], mc.targets.vals[1])>>
          /\ mc.outputs[1] = CostFn(1, mc.inputs.vals[1], mc.targets.vals[1])

\* C5 witness: two costs weighted 2 : 1 (the ratio of [1.0, 0.5]) on one
\* shared target.
C5_Witness ==
    /\ mc.op = "get_cost" /\ mc.inputs.isList /\ MCMatched
    /\ ~mc.targets.isList
    /\ mc.weights = <<2, 1>>
    /\ mc.inputs.vals[1] # mc.inputs.vals[2]


(***************************************************************************)
(* MergeBroadcast                                                          *)
(***************************************************************************)
MaxPaths == 2
MaxDim == 2
MaxBsz == 2
MaxConfigures == 2

RECURSIVE SeqProd(_)
SeqProd(s) == IF s = <<>> THEN 1 ELSE s[1] * SeqProd(Tail(s))

\* np.cumsum(catdims)[i - 1]
RECURSIVE CumSum(_, _)
CumSum(s, i) == IF i = 0 THEN 0 ELSE CumSum(s, i - 1) + s[i]

\* A shape is an int or a tuple of ints.
IntShape(n) == [isInt |-> TRUE, dims |-> <<n>>]
TupleShape(d) == [isInt |-> FALSE, dims |-> d]
NoShape == [isInt |-> TRUE, dims |-> <<>>]

Dims == 1..MaxDim

\* The out_shapes a sub-path can have under each merge mode: (features,
\* steps) for recurrent, (channels, height, width) for depth, a feature
\* count or (channels, height, width) for stack.
PathShapes(merge) ==
    CASE merge = "recurrent" -> {TupleShape(d) : d \in [1..2 -> Dims]}
      [] merge = "depth" -> {TupleShape(d) : d \in [1..3 -> Dims]}
      [] merge = "stack" -> {IntShape(n) : n \in Dims} \cup
                            {TupleShape(d) : d \in [1..3 -> Dims]}

\* The scenario of the specification: two sub-paths of shape (4, 8, 8).
ExampleShapes == <<TupleShape(<<4, 8, 8>>), TupleShape(<<4, 8, 8>>)>>

MergeModes == {"recurrent", "depth", "stack"}

\* backend.iobuf(shape): the 2-D shape of the buffer.  A 2-tuple (features,
\* steps) is laid out time-major, (features, steps * bsz); anything else
\* batch-major, (volume, bsz).
IoBufShape(shape, bsz) ==
    IF ~shape.isInt /\ Len(shape.dims) = 2
    THEN <<shape.dims[1], shape.dims[2] * bsz>>
    ELSE <<SeqProd(shape.dims), bsz>>

\* MergeBroadcast.__init__(layers, merge): layers[i] is the i-th sub-path,
\* of which the model keeps the out_shape its configure() arrives at.
MBConstruct(shapes, merge, bsz, alphas) ==
    [layers |-> [i \in 1..Len(shapes) |-> [out_shape |-> shapes[i]]],
     merge |-> merge,
     bsz |-> bsz,
     betas |-> [i \in 1..Len(shapes) |-> IF i = Len(shapes) THEN 0 ELSE 1],
     alphas |-> IF alphas = NoAlphas THEN [i \in 1..Len(shapes) |-> 1] ELSE alphas,
     out_shape |-> NoShape,
     slices |-> <<>>,
     outputs |-> <<>>,
     output_views |-> <<>>,
     cls |-> "MergeBroadcast",
     nconf |-> 0,
     nbufs |-> 0,
     error_views |-> <<>>,
     error0 |-> "none",
     barg |-> [error |-> "none", alpha |-> 1, beta |-> 0],
     bcalls |-> <<>>,
     op |-> "init"]

\* The catdims list of _configure_merge.
Catdims(m) ==
    LET in_shapes == [i \in 1..Len(m.layers) |-> m.layers[i].out_shape] IN
    CASE m.merge = "recurrent" -> [i \in 1..Len(in_shapes) |-> in_shapes[i].dims[2]]
      [] m.merge = "depth" -> [i \in 1..Len(in_shapes) |-> in_shapes[i].dims[1]]
      [] m.merge = "stack" -> [i \in 1..Len(in_shapes) |->
                                 IF in_shapes[i].isInt THEN in_shapes[i].dims[1]
                                 ELSE SeqProd(in_shapes[i].dims)]

\* The stride_size of _configure_merge.
StrideSize(m) ==
    CASE m.merge = "recurrent" -> m.bsz
      [] m.merge = "depth" -> SeqProd(Tail(m.layers[1].out_shape.dims))
      [] m.merge = "stack" -> 1

\* The out_shape of _configure_merge.
MergeOutShape(m) ==
    LET total == CumSum(Catdims(m), Len(m.layers)) IN
    CASE m.merge = "recurrent" -> TupleShape(<<m.layers[1].out_shape.dims[1], total>>)
      [] m.merge = "depth" -> TupleShape(<<total>> \o Tail(m.layers[1].out_shape.dims))
      [] m.merge = "stack" -> IntShape(total)

Slice(s, e) == [start |-> s, stop |-> e]

\* Slices that all start at 0 (start_idx not shifted against end_idx).
MergeSlicesFromZero(m) ==
    [i \in 1..Len(m.layers) |-> Slice(0, CumSum(Catdims(m), i) * StrideSize(m))]

\* The slices of _configure_merge: end_idx is the cumulative sum of catdims
\* times the stride, start_idx is [0] + end_idx[:-1].
MergeSlices(m) ==
    LET end_idx == [i \in 1..Len(m.layers) |-> CumSum(Catdims(m), i) * StrideSize(m)]
        start_idx == <<0>> \o SubSeq(end_idx, 1, Len(end_idx) - 1)
    IN  [i \in 1..Len(m.layers) |-> Slice(start_idx[i], end_idx[i])]

\* MergeBroadcast.configure: the sub-paths are configured, then
\* _configure_merge sets out_shape and slices.
MBConfigure(m) ==
    [m EXCEPT !.out_shape = MergeOutShape(m),
              !.slices = MergeSlices(m),
              !.nconf = m.nconf + 1,
              !.op = "configure"]

\* x[sl] along an axis of the given length: Python clips a slice to the axis.
View(axis, sl, length) ==
    [axis |-> axis, lo |-> Min(sl.start, length), hi |-> Min(sl.stop, length)]

\* MergeBroadcast.get_partitions(x, slices) for x of 2-D shape xshape: the
\* trailing axis is sliced when its length is not bsz, else the leading one.
GetPartitions(xshape, slices, bsz) ==
    IF xshape[2] # bsz
    THEN [i \in 1..Len(slices) |-> View("cols", slices[i], xshape[2])]
    ELSE [i \in 1..Len(slices) |-> View("rows", slices[i], xshape[1])]

\* MergeBroadcast.allocate: self.outputs is created when it is None, and the
\* views of the sub-paths are its partitions.
MBAllocate(m) ==
    LET outputs == IF m.outputs = <<>> THEN IoBufShape(m.out_shape, m.bsz) ELSE m.outputs
    IN  [m EXCEPT !.outputs = outputs,
                  !.nbufs = IF m.outputs = <<>> THEN m.nbufs + 1 ELSE m.nbufs,
                  !.output_views = GetPartitions(outputs, m.slices, m.bsz),
                  !.op = "allocate"]

\* One l.bprop call of MergeBroadcast.bprop: the sub-path, the view of the
\* error it is given and the alpha and beta it is called with.
PathBpropCall(i, e, a, b) == [path |-> i, view |-> e, alpha |-> a, beta |-> b]

\* The calls of the loop of MergeBroadcast.bprop: the zip of layers,
\* error_views, alphas and betas stops at the shortest, and is walked
\* backwards.
PathBpropCalls(m, error_views, alpha, betas) ==
    LET n == Min(Min(Len(m.layers), Len(error_views)), Min(Len(m.alphas), Len(betas)))
    IN  [k \in 1..n |->
            PathBpropCall(n + 1 - k, error_views[n + 1 - k],
                          m.alphas[n + 1 - k] * alpha, betas[n + 1 - k])]

\* The error buffers a caller passes: two tensors of the shape of
\* self.outputs.
MBErrors == {"error1", "error2"}

\* get_partitions(error, self.slices): views into the buffer error.
ErrorPartitions(m, error) ==
    LET views == GetPartitions(m.outputs, m.slices, m.bsz)
    IN  [i \in 1..Len(views) |-> [buf |-> error, view |-> views[i]]]

\* MergeBroadcast.bprop that leaves self.betas as it finds it.
MBBpropOwnBetas(m, error, alpha, beta) ==
    LET error_views == IF m.error_views = <<>> THEN ErrorPartitions(m, error)
                       ELSE m.error_views
    IN  [m EXCEPT !.error_views = error_views,
                  !.error0 = IF m.error_views = <<>> THEN error ELSE m.error0,
                  !.barg = [error |-> error, alpha |-> alpha, beta |-> beta],
                  !.bcalls = PathBpropCalls(m, error_views, alpha, m.betas),
                  !.op = "bprop"]

\* MergeBroadcast.bprop that partitions the error of every call.
MBBpropFreshViews(m, error, alpha, beta) ==
    LET betas == [m.betas EXCEPT ![Len(m.betas)] = beta]
        error_views == ErrorPartitions(m, error)
    IN  [m EXCEPT !.betas = betas,
                  !.error_views = error_views,
                  !.error0 = IF m.error_views = <<>> THEN error ELSE m.error0,
                  !.barg = [error |-> error, alpha |-> alpha, beta |-> beta],
                  !.bcalls = PathBpropCalls(m, error_views, alpha, betas),
                  !.op = "bprop"]

\* MergeBroadcast.bprop(error, alpha, beta), error having the shape of
\* self.outputs: betas[-1] is set to beta, the views of the error are made
\* when self.error_views is None, that is on the first call (error0 keeps
\* which buffer that was), and the sub-paths are called.
MBBprop(m, error, alpha, beta) ==
    LET betas == [m.betas EXCEPT ![Len(m.betas)] = beta]
        error_views == IF m.error_views = <<>> THEN ErrorPartitions(m, error)
                       ELSE m.error_views
    IN  [m EXCEPT !.betas = betas,
                  !.error_views = error_views,
                  !.error0 = IF m.error_views = <<>> THEN error ELSE m.error0,
                  !.barg = [error |-> error, alpha |-> alpha, beta |-> beta],
                  !.bcalls = PathBpropCalls(m, error_views, alpha, betas),
                  !.op = "bprop"]

\* MergeMultistream.bprop(error): the views of the error are made when
\* self.error_views is None, and sub-path i is called with view i and the
\* default alpha and beta, first to last.
MMBprop(m, error) ==
    LET error_views == IF m.error_views = <<>> THEN ErrorPartitions(m, error)
                       ELSE m.error_views
    IN  [m EXCEPT !.error_views = error_views,
                  !.error0 = IF m.error_views = <<>> THEN error ELSE m.error0,
                  !.barg = [error |-> error, alpha |-> 1, beta |-> 0],
                  !.bcalls = [i \in 1..Min(Len(m.layers), Len(error_views)) |->
                                 PathBpropCall(i, error_views[i], 1, 0)],
                  !.op = "mm_bprop"]

\* The alphas argument: None, or a list of any length.
MBAlphaArgs == {NoAlphas} \cup {[i \in 1..n |-> i] : n \in 1..MaxPaths}

MBInit ==
    /\ \E merge \in MergeModes, bsz \in 1..MaxBsz :
          \E shapes \in UNION {[1..n -> PathShapes(merge)] : n \in 1..MaxPaths}
                        \cup (IF merge = "depth" THEN {ExampleShapes} ELSE {}) :
              mb = MBConstruct(shapes, merge, bsz, NoAlphas)
    /\ tree = Idle /\ res = Idle /\ mc = Idle /\ sq = Idle /\ lw = Idle /\ ad = Idle
    /\ lo = Idle /\ gd = Idle /\ cn = Idle

MBConfigureAct ==
    /\ mb.op = "init"
    /\ mb' = MBConfigure(mb)
    /\ UNCHANGED <<tree, res, mc, sq, lw, ad, lo, gd, cn>>

MBAllocateAct ==
    /\ mb.op \in {"configure", "allocate"}
    /\ mb' = MBAllocate(mb)
    /\ UNCHANGED <<tree, res, mc, sq, lw, ad, lo, gd, cn>>

MBBpropAct ==
    /\ mb.cls = "MergeBroadcast"
    /\ mb.op \in {"allocate", "bprop"}
    /\ \E error \in MBErrors, alpha \in Alphas, beta \in Betas :
          mb' = MBBprop(mb, error, alpha, beta)
    /\ UNCHANGED <<tree, res, mc, sq, lw, ad, lo, gd, cn>>

MMBpropAct ==
    /\ mb.cls = "MergeMultistream"
    /\ mb.op \in {"allocate", "mm_bprop"}
    /\ \E error \in MBErrors : mb' = MMBprop(mb, error)
    /\ UNCHANGED <<tree, res, mc, sq, lw, ad, lo, gd, cn>>

MBNext == MBConfigureAct \/ MBAllocateAct

\* Back propagation: a MergeBroadcast of sub-paths of one shape,
\* constructed with or without alphas, is configured and allocated, and
\* bprop is called any number of times.
MBBackInit ==
    /\ \E merge \in MergeModes, bsz \in 1..MaxBsz, alphas \in MBAlphaArgs :
          \E n \in 1..MaxPaths, shape \in PathShapes(merge) :
              \/ mb = MBConstruct([i \in 1..n |-> shape], merge, bsz, alphas)
              \/ /\ alphas = NoAlphas
                 /\ mb = [MBConstruct([i \in 1..n |-> shape], merge, bsz, NoAlphas)
                             EXCEPT !.cls = "MergeMultistream"]
    /\ tree = Idle /\ res = Idle /\ mc = Idle /\ sq = Idle /\ lw = Idle /\ ad = Idle
    /\ lo = Idle /\ gd = Idle /\ cn = Idle

\* configure(in_obj) called again, with an input of another shape: the
\* sub-paths arrive at new out_shapes and _configure_merge runs on them;
\* self.outputs is left as it is.
MBReconfigureAct ==
    /\ mb.op \in {"configure", "allocate"}
    /\ mb.nconf < MaxConfigures
    /\ \E shape \in PathShapes(mb.merge) :
          mb' = MBConfigure([mb EXCEPT !.layers =
                                [i \in 1..Len(mb.layers) |-> [out_shape |-> shape]]])
    /\ UNCHANGED <<tree, res, mc, sq, lw, ad, lo, gd, cn>>

MBReNext == MBConfigureAct \/ MBAllocateAct \/ MBReconfigureAct

\* Configuration and allocation, any number of times.
SpecMergeReconfigure == MBBackInit /\ [][MBReNext]_vars

MBBackNext == MBConfigureAct \/ MBAllocateAct \/ MBBpropAct \/ MMBpropAct

SpecMergeBprop == MBBackInit /\ [][MBBackNext]_vars

SpecMerge == MBInit /\ [][MBNext]_vars


MBConfigured == mb.op \in {"configure", "allocate", "bprop"}

NPaths == Len(mb.layers)

\* The concatenation size of sub-path i, read off its out_shape.
Catdim(i) ==
    LET xs == mb.layers[i].out_shape IN
    CASE mb.merge = "recurrent" -> xs.dims[2]
      [] mb.merge = "depth" -> xs.dims[1]
      [] mb.merge = "stack" -> SeqProd(xs.dims)

RECURSIVE CatdimTotal(_)
CatdimTotal(n) == IF n = 0 THEN 0 ELSE CatdimTotal(n - 1) + Catdim(n)

\* The slices are a prefix-sum partition of 0 .. stride * sum(catdims).
SlicesPrefixSum ==
    /\ Len(mb.slices) = NPaths
    /\ mb.slices[1].start = 0
    /\ \A i \in 1..(NPaths - 1) : mb.slices[i + 1].start = mb.slices[i].stop
    /\ \A i \in 1..NPaths :
          mb.slices[i].stop - mb.slices[i].start = Catdim(i) * StrideSize(mb)
    /\ mb.slices[NPaths].stop = StrideSize(mb) * CatdimTotal(NPaths)

\* The length of the axis of self.outputs that the views slice.
ViewAxisLen ==
    IF mb.output_views[1].axis = "rows" THEN mb.outputs[1] ELSE mb.outputs[2]

\* The views lie one after the other along one axis of self.outputs, from
\* its start to its end: no two overlap and together they cover the buffer.
ViewsPartitionBuffer ==
    /\ Len(mb.output_views) = NPaths
    /\ \A i \in 1..NPaths : mb.output_views[i].axis = mb.output_views[1].axis
    /\ mb.output_views[1].lo = 0
    /\ \A i \in 1..(NPaths - 1) : mb.output_views[i + 1].lo = mb.output_views[i].hi
    /\ \A i \in 1..NPaths : mb.output_views[i].lo < mb.output_views[i].hi
    /\ mb.output_views[NPaths].hi = ViewAxisLen

\* C6: after _configure_merge the slices are a prefix-sum partition (slice 0
\* starts at 0, each slice starts where the one before ends and has length
\* catdim * stride_size, the last ends at stride_size * sum(catdims)), and
\* the views of the sub-paths never overlap and cover the whole buffer.
C6_SlicesPartitionBuffer ==
    /\ MBConfigured => SlicesPrefixSum
    /\ mb.op \in {"allocate", "bprop"} => ViewsPartitionBuffer

\* C6, the slices alone: they are a prefix-sum partition in every mode.
C6_SlicesOnly == MBConfigured => SlicesPrefixSum

\* C6, the views outside the case that fails: they partition the buffer
\* unless the mode is recurrent and the steps of the sub-paths sum to 1.
C6_ViewsUnlessOneStep ==
    (mb.op = "allocate" /\ ~(mb.merge = "recurrent" /\ CatdimTotal(NPaths) = 1))
        => ViewsPartitionBuffer

DepthAllocated == mb.op = "allocate" /\ mb.merge = "depth"

\* out_shape is (sum of the leading dimensions,) + the trailing dimensions
\* of the first sub-path.
DepthOutShape ==
    mb.out_shape = TupleShape(<<CatdimTotal(NPaths)>> \o Tail(mb.layers[1].out_shape.dims))

\* The view of sub-path i is a block of rows that starts where the block of
\* sub-path i - 1 ends.
DepthBlocksInOrder ==
    /\ \A i \in 1..NPaths : mb.output_views[i].axis = "rows"
    /\ mb.output_views[1].lo = 0
    /\ \A i \in 1..(NPaths - 1) : mb.output_views[i + 1].lo = mb.output_views[i].hi

\* The scenario: shapes (4, 8, 8) twice give (8, 8, 8) and the two halves.
DepthExample ==
    [i \in 1..NPaths |-> mb.layers[i].out_shape] = ExampleShapes =>
        /\ mb.out_shape = TupleShape(<<8, 8, 8>>)
        /\ mb.output_views = <<[axis |-> "rows", lo |-> 0, hi |-> 256],
                               [axis |-> "rows", lo |-> 256, hi |-> 512]>>

SameTrailingDims(i) ==
    Tail(mb.layers[i].out_shape.dims) = Tail(mb.layers[1].out_shape.dims)

\* C7 (as stated): under merge="depth" out_shape is (sum of leading dims,) +
\* trailing dims of the first sub-path and sub-path i gets a contiguous block
\* along the leading axis of exactly its own output volume.
C7_DepthBlockIsOwnVolume ==
    DepthAllocated =>
        /\ DepthOutShape /\ DepthBlocksInOrder /\ DepthExample
        /\ \A i \in 1..NPaths :
              mb.output_views[i].hi - mb.output_views[i].lo =
                  SeqProd(mb.layers[i].out_shape.dims)

\* C7 (amended): the block of sub-path i has its leading dimension times the
\* trailing volume of the first sub-path, which is its own output volume
\* when its trailing dimensions are those of the first sub-path.
C7_DepthBlockByFirstTrailing ==
    DepthAllocated =>
        /\ DepthOutShape /\ DepthBlocksInOrder /\ DepthExample
        /\ \A i \in 1..NPaths :
              /\ mb.output_views[i].hi - mb.output_views[i].lo =
                    mb.layers[i].out_shape.dims[1] *
                        SeqProd(Tail(mb.layers[1].out_shape.dims))
              /\ SameTrailingDims(i) =>
                    mb.output_views[i].hi - mb.output_views[i].lo =
                        SeqProd(mb.layers[i].out_shape.dims)

\* C7 witness: the scenario's two (4, 8, 8) sub-paths, allocated.
C7_Witness ==
    /\ DepthAllocated
    /\ [i \in 1..NPaths |-> mb.layers[i].out_shape] = ExampleShapes


\* The betas between calls: 1.0 for every sub-path but the last, and for
\* the last the beta of the most recent bprop call, 0.0 before any.
BetasByLastCall ==
    /\ Len(mb.betas) = NPaths
    /\ \A i \in 1..(NPaths - 1) : mb.betas[i] = 1
    /\ mb.betas[NPaths] = IF mb.op = "bprop" THEN mb.barg.beta ELSE 0

\* The calls of the last bprop are those of sub-paths n down to 1, each on
\* its own view of the error, with alphas[i] * alpha and its own beta.
PathsCalledFrom(n) ==
    /\ Len(mb.bcalls) = n
    /\ \A k \in 1..n :
          LET i == n + 1 - k
          IN  mb.bcalls[k] = [path |-> i, view |-> mb.error_views[i],
                              alpha |-> mb.alphas[i] * mb.barg.alpha,
                              beta |-> mb.betas[i]]

\* The calls of the last bprop that overwrite the gradient buffer.
MBOverwrites == {k \in 1..Len(mb.bcalls) : mb.bcalls[k].beta = 0}

\* C18 as stated: the betas are 1.0 but for the last, which is the beta of
\* the most recent bprop; bprop calls every sub-path, from last to first,
\* with alphas[i] * alpha and its own beta; with beta 0.0 exactly one
\* sub-path overwrites, the first one processed.
C18_EveryPathCalled ==
    /\ BetasByLastCall
    /\ mb.op = "bprop" =>
          /\ PathsCalledFrom(NPaths)
          /\ mb.barg.beta = 0 => MBOverwrites = {1}

\* C18, amended: the betas are as stated; bprop calls the sub-paths that
\* have an entry in alphas, from the last of them to the first, with
\* alphas[i] * alpha and their own beta; when alphas has an entry for every
\* sub-path (as the default has) all are called and with beta 0.0 exactly
\* the first one processed overwrites, and when alphas is shorter the last
\* sub-paths are not called and no call overwrites.
C18_PathsWithAlphaCalled ==
    /\ BetasByLastCall
    /\ mb.op = "bprop" =>
          /\ PathsCalledFrom(Min(NPaths, Len(mb.alphas)))
          /\ (Len(mb.alphas) >= NPaths /\ mb.barg.beta = 0) => MBOverwrites = {1}
          /\ Len(mb.alphas) < NPaths => MBOverwrites = {}

\* C18 witness: a second bprop, with beta 0.0 after one with beta 1.0, on a
\* MergeBroadcast of two sub-paths built with two alphas.
C18_Witness ==
    /\ mb.op = "bprop" /\ NPaths = 2 /\ mb.alphas = <<1, 2>>
    /\ mb.barg.alpha = 2 /\ mb.barg.beta = 0
    /\ mb.betas = <<1, 0>>
    /\ Len(mb.bcalls) = 2 /\ mb.bcalls[1].path = 2 /\ mb.bcalls[1].alpha = 4


MBBpropCalled == mb.op \in {"bprop", "mm_bprop"}

\* The calls of the last bprop all got views into the buffer error, the
\* view of sub-path i being the i-th partition under the slices.
ViewsInto(error) ==
    \A k \in 1..Len(mb.bcalls) :
        mb.bcalls[k].view =
            [buf |-> error,
             view |-> GetPartitions(mb.outputs, mb.slices, mb.bsz)[mb.bcalls[k].path]]

\* C22 as stated: on every bprop call of a sequence, sub-path i gets the
\* i-th partition of the error passed to that same call, also when the
\* call passes another buffer than the first call did.
C22_ViewsOfSameCall == MBBpropCalled => ViewsInto(mb.barg.error)

\* C22, amended: the error is partitioned on the first bprop call only, so
\* on every call sub-path i gets the i-th partition of the error buffer of
\* the first call; that is the error of the same call exactly when the
\* call passes the buffer the first call passed.
C22_ViewsOfFirstCall ==
    MBBpropCalled =>
        /\ ViewsInto(mb.error0)
        /\ ViewsInto(mb.barg.error) <=> mb.barg.error = mb.error0

\* C22 witness: a later bprop of a MergeBroadcast of two sub-paths, with
\* another error buffer than the first call's.
C22_Witness ==
    /\ mb.op = "bprop" /\ NPaths = 2 /\ Len(mb.bcalls) = 2
    /\ mb.error0 = "error1" /\ mb.barg.error = "error2"


\* C23: after any sequence of configure and allocate calls, also configure
\* with another input shape followed by allocate, the output buffer has the
\* size of the current out_shape and the output views are its partitions
\* under the current slices; allocate alone creates no second buffer.
C23_BufferOfCurrentShape ==
    mb.op = "allocate" =>
        /\ mb.outputs = IoBufShape(mb.out_shape, mb.bsz)
        /\ mb.output_views = GetPartitions(mb.outputs, mb.slices, mb.bsz)
        /\ mb.nbufs = 1

\* C23, what holds: allocate creates the output buffer once, whatever is
\* called between; the views are the partitions under the current slices
\* of that one buffer; it has the size of the current out_shape as long as
\* configure ran once.
C23_OneBufferEver ==
    /\ mb.nbufs <= 1
    /\ mb.op = "allocate" =>
          /\ mb.nbufs = 1
          /\ mb.output_views = GetPartitions(mb.outputs, mb.slices, mb.bsz)
          /\ mb.nconf = 1 => mb.outputs = IoBufShape(mb.out_shape, mb.bsz)

\* The depth mode configured for (1, 1, 1), allocated, configured again for
\* (2, 1, 1) and allocated: the buffer still has the first size.
C23_StaleBuffer ==
    /\ mb.op = "allocate" /\ mb.merge = "depth" /\ mb.nconf = 2 /\ NPaths = 1
    /\ mb.layers[1].out_shape = TupleShape(<<2, 1, 1>>)
    /\ mb.outputs = <<1, mb.bsz>>
    /\ IoBufShape(mb.out_shape, mb.bsz) = <<2, mb.bsz>>


(***************************************************************************)
(* flatten and Sequential.__init__                                         *)
(*                                                                         *)
(* The argument of Sequential is written as Python writes it: a sequence   *)
(* of tokens, "[" and "]" around the items of a list, and one token per    *)
(* object that is not a list (a layer, or a container, named by its type). *)
(***************************************************************************)
MaxTokens == 6

LeafTypes == {"Convolution", "Activation", "Dropout", "DataTransform", "BranchNode",
              "MergeBroadcast"}

\* The layers that own their output buffer (Layer.owns_output).
OwnsOutput(type) == type \in {"Convolution", "MergeBroadcast"}

\* Items(n): the objects written with n tokens; Forest(n): the sequences of
\* objects written with n tokens in all.
RECURSIVE Items(_), Forest(_)
Items(n) ==
    IF n = 1 THEN {<<t>> : t \in LeafTypes}
    ELSE {<<"[">> \o f \o <<"]">> : f \in Forest(n - 2)}

Forest(n) ==
    IF n = 0 THEN {<<>>}
    ELSE UNION {{i \o f : i \in Items(k), f \in Forest(n - k)} : k \in 1..n}

\* The lists Sequential is constructed from.
SeqArgs == UNION {Items(n) : n \in 2..MaxTokens}

\* hasattr(item, '__iter__'): the item is a list.
IsIterable(item) == item[1] = "["

\* The number of tokens of the object that starts at position i of toks.
RECURSIVE ItemEnd(_, _, _)
ItemEnd(toks, i, depth) ==
    LET d == IF toks[i] = "[" THEN depth + 1
             ELSE IF toks[i] = "]" THEN depth - 1 ELSE depth
    IN  IF d = 0 THEN i ELSE ItemEnd(toks, i + 1, d)

\* iter(item): the objects of the list written as toks without its brackets.
RECURSIVE Elements(_)
Elements(toks) ==
    IF toks = <<>> THEN <<>>
    ELSE LET e == ItemEnd(toks, 1, 0)
         IN  <<SubSeq(toks, 1, e)>> \o Elements(SubSeq(toks, e + 1, Len(toks)))

\* flatten that yields the items of a list last to first.
RECURSIVE FlattenBackwards(_)
FlattenBackwards(item) ==
    IF IsIterable(item)
    THEN LET el == Elements(SubSeq(item, 2, Len(item) - 1))
             F[k \in 0..Len(el)] ==
                 IF k = 0 THEN <<>> ELSE FlattenBackwards(el[k]) \o F[k - 1]
         IN  F[Len(el)]
    ELSE item

\* flatten(item): the objects it yields, in order.
RECURSIVE flatten(_)
flatten(item) ==
    IF IsIterable(item)
    THEN LET el == Elements(SubSeq(item, 2, Len(item) - 1))
             F[k \in 0..Len(el)] ==
                 IF k = 0 THEN <<>> ELSE F[k - 1] \o flatten(el[k])
         IN  F[Len(el)]
    ELSE item

\* Sequential.__init__ that takes the root from self.layers, BranchNodes
\* included.
SeqConstructUnfiltered(arg) ==
    LET layers == flatten(arg)
        filtered == SelectSeq(layers, LAMBDA x : x # "BranchNode")
        status == IF layers = <<>> THEN "IndexError"
                  ELSE IF OwnsOutput(layers[1]) \/ layers[1] \in {"Dropout", "DataTransform"}
                       THEN "ok"
                  ELSE "AssertionError"
    IN  [arg |-> arg, layers |-> layers, _layers |-> filtered, status |-> status,
         op |-> "init", ret |-> <<>>,
         in_obj |-> "unset", alpha |-> 1, beta |-> 0, bcalls |-> <<>>, bret |-> 0]

\* Sequential.__init__(layers): self.layers, self._layers and how the
\* constructor ends: _layers[0] raises IndexError when no layer is left, the
\* assert fails ("Sequential root must own outputs") when the root neither
\* owns its output nor is a Dropout or a DataTransform.
SeqConstruct(arg) ==
    LET layers == flatten(arg)
        filtered == SelectSeq(layers, LAMBDA x : x # "BranchNode")
        status == IF filtered = <<>> THEN "IndexError"
                  ELSE IF OwnsOutput(filtered[1]) \/ filtered[1] \in {"Dropout", "DataTransform"}
                       THEN "ok"
                  ELSE "AssertionError"
    IN  [arg |-> arg, layers |-> layers, _layers |-> filtered, status |-> status,
         op |-> "init", ret |-> <<>>,
         in_obj |-> "unset", alpha |-> 1, beta |-> 0, bcalls |-> <<>>, bret |-> 0]

SqInit ==
    /\ \E arg \in SeqArgs : sq = SeqConstruct(arg)
    /\ tree = Idle /\ res = Idle /\ mc = Idle /\ mb = Idle /\ lw = Idle /\ ad = Idle
    /\ lo = Idle /\ gd = Idle /\ cn = Idle

\* Sequential.fprop(inputs) on a constructed Sequential.  fprop and bprop
\* leave the Sequential as it was, so each is called once, on the
\* Sequential as constructed or configured.
SqFpropAct ==
    /\ sq.status = "ok" /\ sq.op \in {"init", "configure"}
    /\ \E x \in {"x1", "x2"} :
          sq' = [sq EXCEPT !.op = "fprop", !.ret = SeqFprop(sq.layers, <<x>>)]
    /\ UNCHANGED <<tree, res, mc, mb, lw, ad, lo, gd, cn>>

\* Sequential.configure(in_obj): with an in_obj from outside, or with None
\* as Tree.configure calls it on an auxiliary branch, which is led by its
\* root BranchNode and holds no other.
SqConfigureAct ==
    /\ sq.status = "ok" /\ sq.in_obj = "unset"
    /\ \E in_obj \in {"given", "None"} :
          /\ in_obj = "None" =>
                /\ sq.layers[1] = "BranchNode"
                /\ \A p \in 2..Len(sq.layers) : sq.layers[p] # "BranchNode"
          /\ sq' = [sq EXCEPT !.op = "configure", !.in_obj = in_obj]
    /\ UNCHANGED <<tree, res, mc, mb, lw, ad, lo, gd, cn>>

\* Sequential.bprop(error, alpha, beta) on a configured Sequential; bret is
\* the position of the layer whose deltas are returned.
SqBpropAct ==
    /\ sq.status = "ok" /\ sq.op = "configure"
    /\ \E alpha \in Alphas, beta \in Betas :
          sq' = [sq EXCEPT !.op = "bprop", !.alpha = alpha, !.beta = beta,
                           !.bcalls = SeqBpropCalls(sq.layers, sq.in_obj = "given",
                                                    alpha, beta),
                           !.bret = FirstLayerPos(sq.layers)]
    /\ UNCHANGED <<tree, res, mc, mb, lw, ad, lo, gd, cn>>

SqNext == SqFpropAct \/ SqConfigureAct \/ SqBpropAct

SpecSequential == SqInit /\ [][SqNext]_vars

\* The leaves of the argument, in the order they are written.
LeavesInOrder(toks) == SelectSeq(toks, LAMBDA t : t \notin {"[", "]"})

\* C8: the layers of a Sequential built from a nested list are the non-list
\* leaves of the list, depth first and left to right, each once, and a
\* nested container stays one element.
C8_FlattenDepthFirst == sq.status = "ok" => sq.layers = LeavesInOrder(sq.arg)

\* C8 witness: a list holding a nested list, an empty list and a container.
C8_Witness ==
    /\ sq.status = "ok"
    /\ \E i \in 2..(Len(sq.arg) - 1) : sq.arg[i] = "[" /\ sq.arg[i + 1] # "]"
    /\ Len(sq.layers) >= 2
    /\ sq.layers[1] # sq.layers[2]


\* The first object of the argument that is not a BranchNode, as a sequence
\* of at most one element.
SqRoot ==
    LET nb == SelectSeq(LeavesInOrder(sq.arg), LAMBDA t : t # "BranchNode")
    IN  IF nb = <<>> THEN <<>> ELSE <<nb[1]>>

SqRootMayStart(root) == OwnsOutput(root) \/ root \in {"Dropout", "DataTransform"}

\* C11 (as stated): construction fails with "Sequential root must own
\* outputs" whenever the first layer that is not a BranchNode neither owns
\* its output nor is a Dropout or DataTransform, and succeeds otherwise, for
\* every list, lists of BranchNodes only included.
C11_FailsIffRootOwnsNothing ==
    IF SqRoot # <<>> /\ ~SqRootMayStart(SqRoot[1])
    THEN sq.status = "AssertionError"
    ELSE sq.status = "ok"

\* C11 (amended): the same for every list that holds a layer other than a
\* BranchNode; a list without one fails with an IndexError.
C11_FailsOrIndexError ==
    IF SqRoot = <<>> THEN sq.status = "IndexError"
    ELSE IF ~SqRootMayStart(SqRoot[1]) THEN sq.status = "AssertionError"
    ELSE sq.status = "ok"

\* C11 witness: a list that leads with a BranchNode, constructed because the
\* layer after it owns its output.
C11_Witness ==
    /\ sq.status = "ok" /\ sq.op = "init"
    /\ LeavesInOrder(sq.arg)[1] = "BranchNode"
    /\ SqRoot = <<"Convolution">>


\* The positions of the layers that are not BranchNodes.
SqLayerPositions == {p \in 1..Len(sq.layers) : sq.layers[p] # "BranchNode"}

MaxKids == 2

\* A leaf layer, and a container with its children (self.layers).
LeafNode == [isContainer |-> FALSE, layers |-> <<>>]
ContainerNode(kids) == [isContainer |-> TRUE, layers |-> kids]

\* Containers of leaves, and containers of leaves and such containers.
InnerContainers == {ContainerNode([i \in 1..n |-> LeafNode]) : n \in 1..MaxKids}
TopContainers ==
    {ContainerNode(k) : k \in UNION {[1..n -> {LeafNode} \cup InnerContainers] :
                                        n \in 1..MaxKids}}

\* A descriptor: a leaf's has no config.layers, a container's lists the
\* descriptors of its children.
LeafDesc == [hasLayers |-> FALSE, layers |-> <<>>]
ContainerDesc(entries) == [hasLayers |-> TRUE, layers |-> entries]

InnerDescs == {ContainerDesc([i \in 1..n |-> LeafDesc]) : n \in 0..MaxKids}
TopDescs ==
    {ContainerDesc(e) : e \in UNION {[1..n -> {LeafDesc} \cup InnerDescs] :
                                        n \in 0..MaxKids}}

\* One load_weights call: on the layer at path, with the descriptor entry at
\* from (paths are child indices from the top container down).
LoadCall(path, from) == [layer |-> path, from |-> from]

\* load_weights without the assert: zip pairs the children with the entries
\* up to the shorter of the two.
RECURSIVE LoadWeightsNoAssert(_, _, _, _, _)
LoadWeightsNoAssert(node, pdict, path, from, st) ==
    IF ~node.isContainer \/ st.status # "ok" THEN st
    ELSE IF ~pdict.hasLayers THEN [st EXCEPT !.status = "KeyError"]
    ELSE LET n == Min(Len(node.layers), Len(pdict.layers))
             F[i \in 0..n] ==
                 IF i = 0 THEN st
                 ELSE IF F[i - 1].status # "ok" THEN F[i - 1]
                 ELSE LoadWeightsNoAssert(node.layers[i], pdict.layers[i],
                          Append(path, i), Append(from, i),
                          [F[i - 1] EXCEPT !.log =
                              Append(@, LoadCall(Append(path, i), Append(from, i)))])
         IN  F[n]

\* LayerContainer.load_weights(pdict) on node: st.log lists the load_weights
\* calls made on children, st.status is ok or the exception raised.  A leaf's
\* own load_weights reads its descriptor and calls nothing.
RECURSIVE LoadWeights(_, _, _, _, _)
LoadWeights(node, pdict, path, from, st) ==
    IF ~node.isContainer \/ st.status # "ok" THEN st
    ELSE IF ~pdict.hasLayers THEN [st EXCEPT !.status = "KeyError"]
    ELSE IF Len(pdict.layers) # Len(node.layers)
         THEN [st EXCEPT !.status = "AssertionError"]
    ELSE LET n == Len(node.layers)
             F[i \in 0..n] ==
                 IF i = 0 THEN st
                 ELSE IF F[i - 1].status # "ok" THEN F[i - 1]
                 ELSE LoadWeights(node.layers[i], pdict.layers[i],
                          Append(path, i), Append(from, i),
                          [F[i - 1] EXCEPT !.log =
                              Append(@, LoadCall(Append(path, i), Append(from, i)))])
         IN  F[n]

LwInit ==
    /\ \E c \in TopContainers :
          lw = [layers |-> c.layers, pdict |-> LeafDesc, status |-> "ok",
                log |-> <<>>, op |-> "init"]
    /\ tree = Idle /\ res = Idle /\ mc = Idle /\ mb = Idle /\ sq = Idle /\ ad = Idle
    /\ lo = Idle /\ gd = Idle /\ cn = Idle

LwLoadWeightsAct ==
    /\ lw.status = "ok"
    /\ \E pdict \in TopDescs :
          LET st == LoadWeights(ContainerNode(lw.layers), pdict, <<>>, <<>>,
                                [status |-> "ok", log |-> <<>>])
          IN  lw' = [lw EXCEPT !.pdict = pdict, !.status = st.status,
                               !.log = st.log, !.op = "load_weights"]
    /\ UNCHANGED <<tree, res, mc, mb, sq, ad, lo, gd, cn>>

LwNext == LwLoadWeightsAct

SpecLoadWeights == LwInit /\ [][LwNext]_vars

\* The calls made on the children of the top container.
LwChildCalls == SelectSeq(lw.log, LAMBDA c : Len(c.layer) = 1)

\* C9: with a descriptor whose number of entries differs from the number of
\* children load_weights fails before any child's load_weights is called;
\* with equal numbers child i loads from entry i, in child order.
C9_CountChecked ==
    lw.op = "load_weights" =>
        /\ Len(lw.pdict.layers) # Len(lw.layers) =>
              (lw.status = "AssertionError" /\ lw.log = <<>>)
        /\ Len(lw.pdict.layers) = Len(lw.layers) =>
              /\ \A k \in 1..Len(LwChildCalls) :
                    LwChildCalls[k] = LoadCall(<<k>>, <<k>>)
              /\ lw.status = "ok" => Len(LwChildCalls) = Len(lw.layers)

\* C9 witness: a load that fails on the count with several children, none
\* of them called.
C9_Witness ==
    /\ lw.op = "load_weights" /\ lw.status = "AssertionError"
    /\ Len(lw.layers) = 2 /\ Len(lw.pdict.layers) = 1


(***************************************************************************)
(* Sequential.allocate_deltas                                              *)
(***************************************************************************)
MaxChildren == 3
MaxVol == 2

ChildTypes == {"Layer", "BranchNode", "MergeBroadcast", "ResidualModule",
               "MergeMultistream"}

\* A child of the Sequential: its type and np.prod(in_shape).
Child(type, vol) == [type |-> type, in_size |-> vol]

ADChildren ==
    UNION {[1..n -> {Child(t, v) : t \in ChildTypes, v \in 1..MaxVol}] :
              n \in 1..MaxChildren}

\* A delta pool: a list object (own: created by allocate_deltas, given:
\* supplied by the caller) of buffers, each with its size.  NoPool is None.
Buffer(k, size) == [k |-> k, size |-> size]
Pool(id, bufs) == [isNone |-> FALSE, id |-> id, bufs |-> bufs]
NoPool == [isNone |-> TRUE, id |-> "none", bufs |-> <<>>]

\* What callers pass as global_deltas: nothing, an empty list, or the two or
\* four buffers of an enclosing container's pool.
SuppliedPools ==
    {NoPool, Pool("given", <<>>),
     Pool("given", [k \in 1..2 |-> Buffer(k, MaxVol)]),
     Pool("given", [k \in 1..4 |-> Buffer(k, MaxVol)])}

\* `not global_deltas`: None and the empty list are both false.
Falsy(pool) == pool.isNone \/ pool.bufs = <<>>

needs_extra_delta(ll) == ll.type \in {"MergeBroadcast", "ResidualModule"}

RECURSIVE SeqMax(_)
SeqMax(s) == IF Len(s) = 1 THEN s[1]
             ELSE LET m == SeqMax(Tail(s)) IN IF s[1] > m THEN s[1] ELSE m

\* The pool allocate_deltas creates with two buffers whatever the children.
NewPoolOfTwo(layers) ==
    LET in_sizes == [i \in 1..(Len(layers) - 1) |-> layers[i + 1].in_size]
    IN  IF in_sizes # <<>>
        THEN Pool("own", [k \in 1..2 |-> Buffer(k, SeqMax(in_sizes))])
        ELSE NoPool

\* The pool allocate_deltas creates when none is supplied: 4 buffers if a
\* child is a MergeBroadcast or a ResidualModule, else 2, each of the
\* largest in_size among layers[1:]; None when there is no such layer.
NewPool(layers) ==
    LET ndelta_bufs == IF \E i \in 1..Len(layers) : needs_extra_delta(layers[i])
                       THEN 4 ELSE 2
        in_sizes == [i \in 1..(Len(layers) - 1) |-> layers[i + 1].in_size]
    IN  IF in_sizes # <<>>
        THEN Pool("own", [k \in 1..ndelta_bufs |-> Buffer(k, SeqMax(in_sizes))])
        ELSE NoPool

SetDeltasCall(i, pool) == [child |-> i, pool |-> pool.id, len |-> Len(pool.bufs)]

\* Layer.set_deltas and BranchNode.set_deltas on a pool: the layer takes the
\* first buffer and reverses the list; without a pool it takes nothing.
LayerSetDeltasPool(pool) ==
    IF pool.isNone THEN [status |-> "ok", pool |-> pool]
    ELSE [status |-> "ok", pool |-> [pool EXCEPT !.bufs = Reverse(@)]]

\* ResidualModule.set_deltas on a pool: asserts four buffers (len() of None
\* is a TypeError) and reverses the list at the end.
ResSetDeltasPool(pool) ==
    IF pool.isNone THEN [status |-> "TypeError", pool |-> pool]
    ELSE IF Len(pool.bufs) # 4 THEN [status |-> "AssertionError", pool |-> pool]
    ELSE [status |-> "ok", pool |-> [pool EXCEPT !.bufs = Reverse(@)]]

\* MergeBroadcast.set_deltas on a pool: asserts four buffers; behind a
\* BranchNode it shares that node's deltas and leaves the list, otherwise it
\* takes the first buffer and reverses the list.
MBSetDeltasPool(pool, prev_is_branch) ==
    IF pool.isNone THEN [status |-> "TypeError", pool |-> pool]
    ELSE IF Len(pool.bufs) # 4 THEN [status |-> "AssertionError", pool |-> pool]
    ELSE IF prev_is_branch THEN [status |-> "ok", pool |-> pool]
    ELSE [status |-> "ok", pool |-> [pool EXCEPT !.bufs = Reverse(@)]]

\* MergeMultistream.set_deltas ignores the pool: each sub-path allocates its
\* own deltas.
MMSetDeltasPool(pool) == [status |-> "ok", pool |-> pool]

\* l.set_deltas(delta_buffers) for child i, dispatched on the child's type.
ChildSetDeltas(layers, i, pool) ==
    LET type == layers[i].type IN
    IF type = "ResidualModule" THEN ResSetDeltasPool(pool)
    ELSE IF type = "MergeBroadcast"
         THEN MBSetDeltasPool(pool, PrevIsBranchNode(layers, i))
    ELSE IF type = "MergeMultistream" THEN MMSetDeltasPool(pool)
    ELSE LayerSetDeltasPool(pool)

\* The loop `for l in self.layers: l.set_deltas(self.global_deltas)`.
RECURSIVE SetDeltasLoop(_, _, _)
SetDeltasLoop(layers, i, pool) ==
    IF i = 0 THEN [status |-> "ok", pool |-> pool, calls |-> <<>>]
    ELSE LET before == SetDeltasLoop(layers, i - 1, pool) IN
         IF before.status # "ok" THEN before
         ELSE LET r == ChildSetDeltas(layers, i, before.pool)
              IN  [status |-> r.status, pool |-> r.pool,
                   calls |-> Append(before.calls, SetDeltasCall(i, before.pool))]

\* Sequential.allocate_deltas(global_deltas)
AllocateDeltas(a, global_deltas) ==
    LET pool == IF Falsy(global_deltas) THEN NewPool(a.layers) ELSE global_deltas
        r == SetDeltasLoop(a.layers, Len(a.layers), pool)
    IN  [a EXCEPT !.supplied = global_deltas,
                  !.created = IF Falsy(global_deltas) THEN pool ELSE NoPool,
                  !.global_deltas = r.pool,
                  !.calls = r.calls,
                  !.status = r.status,
                  !.op = "allocate_deltas"]

ADInit ==
    /\ \E layers \in ADChildren :
          ad = [layers |-> layers, supplied |-> NoPool, created |-> NoPool,
                global_deltas |-> NoPool, calls |-> <<>>, status |-> "ok",
                op |-> "init"]
    /\ tree = Idle /\ res = Idle /\ mc = Idle /\ mb = Idle /\ sq = Idle /\ lw = Idle
    /\ lo = Idle /\ gd = Idle /\ cn = Idle

ADAllocateDeltasAct ==
    /\ ad.op = "init"
    /\ \E global_deltas \in SuppliedPools : ad' = AllocateDeltas(ad, global_deltas)
    /\ UNCHANGED <<tree, res, mc, mb, sq, lw, lo, gd, cn>>

ADNext == ADAllocateDeltasAct

SpecDeltas == ADInit /\ [][ADNext]_vars

ADHasBranching ==
    \E i \in 1..Len(ad.layers) : ad.layers[i].type \in {"MergeBroadcast", "ResidualModule"}

\* The largest in_size among the children other than the first.
ADMaxInSize ==
    CHOOSE v \in 1..MaxVol :
        /\ \E i \in 2..Len(ad.layers) : ad.layers[i].in_size = v
        /\ \A i \in 2..Len(ad.layers) : ad.layers[i].in_size <= v

BufSet(pool) == {pool.bufs[k] : k \in 1..Len(pool.bufs)}

\* C10: without a supplied pool, allocate_deltas on a Sequential of two or
\* more children creates a pool of exactly 4 buffers if a child is a
\* MergeBroadcast or a ResidualModule and of exactly 2 otherwise, each sized
\* to the largest in_size of the children after the first, and hands that
\* pool to every child; a supplied pool (a list that holds buffers) is used
\* as it is and none is created.
C10_PoolOfTwoOrFour ==
    /\ (ad.op = "allocate_deltas" /\ ad.supplied.isNone /\ Len(ad.layers) >= 2) =>
          /\ ~ad.created.isNone /\ ad.created.id = "own"
          /\ Len(ad.created.bufs) = IF ADHasBranching THEN 4 ELSE 2
          /\ \A k \in 1..Len(ad.created.bufs) : ad.created.bufs[k].size = ADMaxInSize
          /\ Cardinality(BufSet(ad.created)) = Len(ad.created.bufs)
          /\ ad.status = "ok"
          /\ Len(ad.calls) = Len(ad.layers)
          /\ \A i \in 1..Len(ad.layers) :
                ad.calls[i].child = i /\ ad.calls[i].pool = "own"
                    /\ ad.calls[i].len = Len(ad.created.bufs)
          /\ ad.global_deltas.id = "own"
          /\ BufSet(ad.global_deltas) = BufSet(ad.created)
    /\ (ad.op = "allocate_deltas" /\ ~Falsy(ad.supplied)) =>
          /\ ad.created.isNone
          /\ ad.global_deltas.id = "given"
          /\ BufSet(ad.global_deltas) = BufSet(ad.supplied)
          /\ \A i \in 1..Len(ad.calls) :
                ad.calls[i].child = i /\ ad.calls[i].pool = "given"
                    /\ ad.calls[i].len = Len(ad.supplied.bufs)
          /\ ad.status = "ok" => Len(ad.calls) = Len(ad.layers)

\* C10 witness: no pool supplied, three children of which the last is a
\* ResidualModule and the first has the largest in_size.
C10_Witness ==
    /\ ad.op = "allocate_deltas" /\ ad.supplied.isNone
    /\ Len(ad.layers) = 3
    /\ ad.layers[3].type = "ResidualModule" /\ ad.layers[2].type = "Layer"
    /\ ad.layers[1].in_size > ADMaxInSize


(***************************************************************************)
(* LayerContainer.layers_to_optimize                                       *)
(*                                                                         *)
(* A container is written as its self.layers between "[" and "]", nested   *)
(* containers likewise and a leaf layer as one token, its type; a leaf is  *)
(* identified by the position of its token.                                *)
(***************************************************************************)
MaxNodes == 5

LtoLeafTypes == {"Convolution", "Activation", "BranchNode"}

\* Layer.has_params: of the leaf types here only a Convolution has weights.
HasParams(type) == type = "Convolution"

RECURSIVE LtoItems(_), LtoForest(_)
LtoItems(n) ==
    IF n = 1 THEN {<<t>> : t \in LtoLeafTypes}
    ELSE {<<"[">> \o f \o <<"]">> : f \in LtoForest(n - 2)}

LtoForest(n) ==
    IF n = 0 THEN {<<>>}
    ELSE UNION {{i \o f : i \in LtoItems(k), f \in LtoForest(n - k)} : k \in 1..n}

\* The containers layers_to_optimize is read from.
LtoContainers == UNION {LtoItems(n) : n \in 2..MaxNodes}

\* isinstance(l, LayerContainer)
IsContainer(item) == item[1] = "["

\* self.layers of a ResidualModule as __init__ leaves it: the trunk
\* Sequential, then the skip layer (a Convolution) when a projection other
\* than Identity is given.
ResLayers(r) ==
    <<"[", "[">> \o [i \in 1..Len(r.layers) |-> r.layers[i].type] \o <<"]">> \o
    (IF r.inLayers THEN <<r.skip_layer.type>> ELSE <<>>) \o <<"]">>

\* layers_to_optimize that does not descend into nested containers.
LayersToOptimizeFlat(toks, off) ==
    LET el == Elements(SubSeq(toks, 2, Len(toks) - 1))
        L[j \in 0..Len(el)] == IF j = 0 THEN off + 1 ELSE L[j - 1] + Len(el[j])
        F[k \in 0..Len(el)] ==
            IF k = 0 THEN <<>>
            ELSE IF IsContainer(el[k]) THEN F[k - 1]
            ELSE IF HasParams(el[k][1]) THEN Append(F[k - 1], L[k - 1] + 1)
            ELSE F[k - 1]
    IN  F[Len(el)]

\* LayerContainer.layers_to_optimize of the container written as toks, whose
\* first token is at position off + 1: the positions of the leaves in lto.
RECURSIVE LayersToOptimize(_, _)
LayersToOptimize(toks, off) ==
    LET el == Elements(SubSeq(toks, 2, Len(toks) - 1))
        L[j \in 0..Len(el)] == IF j = 0 THEN off + 1 ELSE L[j - 1] + Len(el[j])
        F[k \in 0..Len(el)] ==
            IF k = 0 THEN <<>>
            ELSE IF IsContainer(el[k]) THEN F[k - 1] \o LayersToOptimize(el[k], L[k - 1])
            ELSE IF HasParams(el[k][1]) THEN Append(F[k - 1], L[k - 1] + 1)
            ELSE F[k - 1]
    IN  F[Len(el)]

LoInit ==
    /\ \/ \E toks \in LtoContainers :
             lo = [layers |-> toks, residual |-> FALSE, projection |-> "None",
                   skip_layer |-> NoSkip, op |-> "init", ret |-> <<>>]
       \/ \E trunk \in ResTrunks, projection \in Projections :
             LET r == ResConstruct(trunk, projection, 1)
             IN  lo = [layers |-> ResLayers(r), residual |-> TRUE,
                       projection |-> projection, skip_layer |-> r.skip_layer,
                       op |-> "init", ret |-> <<>>]
    /\ tree = Idle /\ res = Idle /\ mc = Idle /\ mb = Idle /\ sq = Idle
    /\ lw = Idle /\ ad = Idle /\ gd = Idle /\ cn = Idle

LoLayersToOptimizeAct ==
    /\ lo' = [lo EXCEPT !.op = "layers_to_optimize",
                        !.ret = LayersToOptimize(lo.layers, 0)]
    /\ UNCHANGED <<tree, res, mc, mb, sq, lw, ad, gd, cn>>

LoNext == LoLayersToOptimizeAct

SpecOptimize == LoInit /\ [][LoNext]_vars

\* The leaves with parameters anywhere in the container.
LoParamLeaves == {i \in 1..Len(lo.layers) : HasParams(lo.layers[i])}

\* C12: layers_to_optimize holds exactly the leaves with parameters reachable
\* through nested containers, each once, in depth-first left-to-right order
\* (the order they are written in); for a ResidualModule the skip layer is
\* among them iff a projection other than Identity was given, while the skip
\* layer exists for every projection.
C12_ParamLeavesDepthFirst ==
    lo.op = "layers_to_optimize" =>
        /\ {lo.ret[k] : k \in 1..Len(lo.ret)} = LoParamLeaves
        /\ \A j, k \in 1..Len(lo.ret) : j < k => lo.ret[j] < lo.ret[k]
        /\ lo.residual =>
              /\ (Len(lo.layers) - 1 \in LoParamLeaves /\ lo.layers[Len(lo.layers) - 2] = "]")
                    <=> lo.projection \notin {"None", "Identity"}
              /\ lo.skip_layer # NoSkip <=> lo.projection # "None"

\* C12 witness: a ResidualModule with an Identity projection, read.
C12_Witness ==
    /\ lo.op = "layers_to_optimize" /\ lo.residual
    /\ lo.projection = "Identity" /\ lo.skip_layer # NoSkip
    /\ Len(lo.ret) >= 2


(***************************************************************************)
(* LayerContainer.get_description and LayerContainer.gen_class             *)
(*                                                                         *)
(* A layer is a record of its type and, for a container, its self.layers.  *)
(* A descriptor config is a record of the type, whether it has a 'layers'  *)
(* key and the descriptors under that key.                                 *)
(***************************************************************************)
MaxSubs == 2

GdContainerTypes == {"Sequential", "Tree", "MergeBroadcast", "ResidualModule"}

GdLeaf(type) == [type |-> type, layers |-> <<>>]
GdNode(type, layers) == [type |-> type, layers |-> layers]

\* owns_output: a Convolution, and the containers that set it in __init__
\* (ResidualModule, MergeBroadcast); a Sequential or a Tree keeps the
\* default of Layer, False.
GdOwnsOutput(l) == l.type \in {"Convolution", "ResidualModule", "MergeBroadcast"}

\* The Sequentials of leaf layers, as the sub-paths of the other containers.
GdTrunk(sh) == GdNode("Sequential", [i \in 1..Len(sh) |-> GdLeaf(sh[i])])

GdSequentials == {GdTrunk(sh) : sh \in TrunkShapes \cup {<<"Convolution">>}}

\* A ResidualModule as __init__ leaves it: the trunk Sequential, then the
\* skip Convolution when a projection other than Identity is given.
GdResiduals ==
    {GdNode("ResidualModule",
            <<GdTrunk(sh)>> \o (IF p \in {"None", "Identity"} THEN <<>>
                                ELSE <<GdLeaf("Convolution")>>)) :
        sh \in TrunkShapes, p \in Projections}

\* A Tree or a MergeBroadcast of up to MaxSubs Sequentials.
GdBranching ==
    {GdNode(t, subs) : t \in {"Tree", "MergeBroadcast"},
                       subs \in UNION {[1..n -> GdSequentials] : n \in 1..MaxSubs}}

\* A Sequential that ends in, or is, a nested container that owns its
\* output.
GdChains ==
    LET nested == {c \in GdResiduals \cup GdBranching : GdOwnsOutput(c)} IN
    {GdNode("Sequential", <<c>>) : c \in nested} \cup
    {GdNode("Sequential", <<GdLeaf("Convolution"), c>>) : c \in nested}

GdContainers == GdSequentials \cup GdResiduals \cup GdBranching \cup GdChains

\* get_description()['config'] of a layer: a container's has the key
\* 'layers' with the descriptions of self.layers, in order.
RECURSIVE GetDescription(_)
GetDescription(l) ==
    [type |-> l.type,
     hasLayers |-> l.type \in GdContainerTypes,
     layers |-> [i \in 1..Len(l.layers) |-> GetDescription(l.layers[i])]]

GdBuilt(status, obj) == [status |-> status, obj |-> obj]
GdNone == GdLeaf("None")

\* Sequential(layers) on objects none of which is a list.
GdSequential(layers) ==
    LET filtered == SelectSeq(layers, LAMBDA x : x.type # "BranchNode") IN
    IF filtered = <<>> THEN GdBuilt("IndexError", GdNone)
    ELSE IF GdOwnsOutput(filtered[1]) \/ filtered[1].type \in {"Dropout", "DataTransform"}
         THEN GdBuilt("ok", GdNode("Sequential", layers))
    ELSE GdBuilt("AssertionError", GdNone)

\* ResidualModule(layers) without a projection: the layers are wrapped in
\* one Sequential, of whose layers the last two Convolutions are read.
GdResidualModule(layers) ==
    LET inner == GdSequential(layers) IN
    IF inner.status # "ok" THEN inner
    ELSE LET convlayers == SelectSeq(inner.obj.layers, LAMBDA x : x.type = "Convolution")
         IN  IF Len(convlayers) < 2 THEN GdBuilt("IndexError", GdNone)
             ELSE GdBuilt("ok", GdNode("ResidualModule", <<inner.obj>>))

\* Tree(layers) and MergeBroadcast(layers, merge): a Sequential is kept, any
\* other layer is wrapped in a Sequential of its own.
GdBranches(type, layers) ==
    LET wrap(l) == IF l.type = "Sequential" THEN GdBuilt("ok", l) ELSE GdSequential(<<l>>)
        F[i \in 0..Len(layers)] ==
            IF i = 0 THEN GdBuilt("ok", <<>>)
            ELSE IF F[i - 1].status # "ok" THEN F[i - 1]
            ELSE IF wrap(layers[i]).status # "ok" THEN GdBuilt(wrap(layers[i]).status, <<>>)
            ELSE GdBuilt("ok", Append(F[i - 1].obj, wrap(layers[i]).obj))
        r == F[Len(layers)]
    IN  IF r.status = "ok" THEN GdBuilt("ok", GdNode(type, r.obj)) ELSE GdBuilt(r.status, GdNone)

\* cls(layers=layers, **pdict)
GdNew(type, layers) ==
    CASE type = "Sequential" -> GdSequential(layers)
      [] type = "ResidualModule" -> GdResidualModule(layers)
      [] type \in {"Tree", "MergeBroadcast"} -> GdBranches(type, layers)

\* cls.gen_class(pdict) for the class named by pdict.type: the object built,
\* how the call ends, and pdict as the call leaves it.  The children are
\* built first (a leaf's gen_class builds the leaf); then 'layers' is popped,
\* the container constructed and 'layers' put back, which an exception in
\* the constructor skips.
RECURSIVE GenClass(_)
GenClass(pdict) ==
    IF ~pdict.hasLayers THEN [status |-> "ok", obj |-> GdLeaf(pdict.type), pdict |-> pdict]
    ELSE LET n == Len(pdict.layers)
             F[i \in 0..n] ==
                 IF i = 0 THEN [status |-> "ok", layers |-> <<>>, descs |-> pdict.layers]
                 ELSE IF F[i - 1].status # "ok" THEN F[i - 1]
                 ELSE LET k == GenClass(pdict.layers[i])
                      IN  [status |-> k.status,
                           layers |-> Append(F[i - 1].layers, k.obj),
                           descs |-> [F[i - 1].descs EXCEPT ![i] = k.pdict]]
             kids == F[n]
         IN  IF kids.status # "ok"
             THEN [status |-> kids.status, obj |-> GdNone,
                   pdict |-> [pdict EXCEPT !.layers = kids.descs]]
             ELSE LET r == GdNew(pdict.type, kids.layers)
                  IN  IF r.status = "ok"
                      THEN [status |-> "ok", obj |-> r.obj,
                            pdict |-> [pdict EXCEPT !.layers = kids.descs]]
                      ELSE [status |-> r.status, obj |-> GdNone,
                            pdict |-> [pdict EXCEPT !.hasLayers = FALSE, !.layers = <<>>]]

GdInit ==
    /\ \E c \in GdContainers :
          gd = [obj |-> c, desc |-> GdNone, pdict |-> GdNone, rebuilt |-> GdNone,
                status |-> "ok", op |-> "init"]
    /\ tree = Idle /\ res = Idle /\ mc = Idle /\ mb = Idle /\ sq = Idle
    /\ lw = Idle /\ ad = Idle /\ lo = Idle /\ cn = Idle

\* desc = container.get_description()
GdGetDescriptionAct ==
    /\ gd.op = "init"
    /\ gd' = [gd EXCEPT !.desc = GetDescription(gd.obj), !.pdict = GetDescription(gd.obj),
                        !.op = "get_description"]
    /\ UNCHANGED <<tree, res, mc, mb, sq, lw, ad, lo, cn>>

\* type(container).gen_class(desc['config'])
GdGenClassAct ==
    /\ gd.op = "get_description"
    /\ LET r == GenClass(gd.desc)
       IN  gd' = [gd EXCEPT !.rebuilt = r.obj, !.status = r.status, !.pdict = r.pdict,
                            !.op = "gen_class"]
    /\ UNCHANGED <<tree, res, mc, mb, sq, lw, ad, lo, cn>>

GdNext == GdGetDescriptionAct \/ GdGenClassAct

SpecDescribe == GdInit /\ [][GdNext]_vars

RECURSIVE GdHasResidual(_)
GdHasResidual(l) ==
    l.type = "ResidualModule" \/ \E i \in 1..Len(l.layers) : GdHasResidual(l.layers[i])

\* The rebuilt container has the children of the described one, in number,
\* order and type at every level, and the descriptor is as it was.
GdRoundTrip ==
    /\ gd.status = "ok"
    /\ gd.rebuilt = gd.obj
    /\ gd.pdict = gd.desc

\* C13: gen_class on the config get_description produced yields a container
\* with the same children, in number, order and type at every nesting level,
\* and leaves the descriptor it was given unchanged.
C13_RoundTrip == gd.op = "gen_class" => GdRoundTrip

\* C13, outside the case that fails: the round trip holds for every
\* container that holds no ResidualModule.
C13_RoundTripWithoutResidual ==
    (gd.op = "gen_class" /\ ~GdHasResidual(gd.obj)) => GdRoundTrip

\* C13, the case that fails: no ResidualModule is rebuilt.
C13_ResidualNeverRebuilt ==
    (gd.op = "gen_class" /\ GdHasResidual(gd.obj)) => gd.status # "ok"


(***************************************************************************)
(* Tree.__init__ and MergeBroadcast.__init__: the elements of the layers   *)
(* argument become the branches.  An element is a Sequential, a list, a    *)
(* Layer or something else; a Sequential and a list are written as the     *)
(* tokens of the list they hold, a Layer as its type.                      *)
(***************************************************************************)
MaxElems == 3

Element(kind, toks) == [kind |-> kind, toks |-> toks]

\* Sequentials built before, by Sequential(toks).
CnSequentials ==
    {Element("Sequential", toks) :
        toks \in {<<"[", "Convolution", "]">>, <<"[", "BranchNode", "Convolution", "]">>}}

\* Lists: the empty list and the lists of one layer.
CnLists == {Element("list", toks) : toks \in Items(2) \cup Items(3)}

CnLayers == {Element("Layer", <<t>>) : t \in LeafTypes}

\* An object that is no Sequential, no list and no Layer (a tuple, a str).
CnOther == Element("other", <<"tuple">>)

CnElements == CnSequentials \cup CnLists \cup CnLayers \cup {CnOther}

CnArgs == UNION {[1..n -> CnElements] : n \in 0..MaxElems}

\* The merge argument: one of the three modes, or another string.
CnMerges == MergeModes \cup {"sum"}

\* The list the Sequential of an element is built from: a Sequential stays
\* as it is, a list l gives Sequential(l), a Layer l gives Sequential([l]).
CnToks(e) == IF e.kind = "Layer" THEN <<"[">> \o e.toks \o <<"]">> ELSE e.toks

CnWrap(e) == SeqConstruct(CnToks(e))

\* The loop over layers of both constructors: a branch records the element
\* it came from; an exception of Sequential() ends the loop; for an element
\* of no known kind a ValueError is built and dropped, and the loop goes on.
RECURSIVE CnNormalize(_, _, _)
CnAppend(elems, i, acc, s) ==
    IF s.status # "ok" THEN [status |-> s.status, layers |-> acc]
    ELSE CnNormalize(elems, i + 1, Append(acc, [from |-> i, layers |-> s.layers]))

CnNormalize(elems, i, acc) ==
    IF i > Len(elems) THEN [status |-> "ok", layers |-> acc]
    ELSE IF elems[i].kind = "other" THEN CnNormalize(elems, i + 1, acc)
    ELSE CnAppend(elems, i, acc, CnWrap(elems[i]))

\* The layers of a branch as objects; the BranchNodes are taken to be one
\* and the same node.
CnObjects(branch) ==
    [p \in 1..Len(branch.layers) |->
        IF branch.layers[p] = "BranchNode" THEN BranchNode(1)
        ELSE [type |-> branch.layers[p], id |-> 0]]

\* Tree.__init__ after the loop over layers, n being what the loop left.
CnTreeBetas(n) ==
    IF n.status # "ok" THEN [status |-> n.status, layers |-> <<>>, betas |-> <<>>]
    ELSE [status |-> "ok", layers |-> n.layers,
          betas |-> TreeBetas([i \in 1..Len(n.layers) |-> CnObjects(n.layers[i])])]

\* Tree.__init__(layers)
CnTree(elems) == CnTreeBetas(CnNormalize(elems, 1, <<>>))

\* MergeBroadcast.__init__ after the loop over layers: self.betas[-1] = 0.0
\* raises IndexError when no sub-path was made; the merge mode is asserted
\* last.
CnMergeBetas(n, merge) ==
    IF n.status # "ok" THEN [status |-> n.status, layers |-> <<>>, betas |-> <<>>]
    ELSE IF Len(n.layers) = 0
         THEN [status |-> "IndexError", layers |-> <<>>, betas |-> <<>>]
    ELSE IF merge \notin MergeModes
         THEN [status |-> "AssertionError", layers |-> <<>>, betas |-> <<>>]
    ELSE [status |-> "ok", layers |-> n.layers,
          betas |-> [i \in 1..Len(n.layers) |-> IF i = Len(n.layers) THEN 0 ELSE 1]]

\* MergeBroadcast.__init__(layers, merge)
CnMergeBroadcast(elems, merge) == CnMergeBetas(CnNormalize(elems, 1, <<>>), merge)

CnInit ==
    /\ \E elems \in CnArgs, merge \in CnMerges :
          cn = [op |-> "args", elems |-> elems, merge |-> merge,
                status |-> "none", layers |-> <<>>, betas |-> <<>>]
    /\ tree = Idle /\ res = Idle /\ mc = Idle /\ mb = Idle /\ sq = Idle
    /\ lw = Idle /\ ad = Idle /\ lo = Idle /\ gd = Idle

\* The state after the constructor cls has ended as t.
CnBuilt(c, cls, t) ==
    [c EXCEPT !.op = cls, !.status = t.status, !.layers = t.layers, !.betas = t.betas]

CnTreeAct ==
    /\ cn.op = "args"
    /\ cn' = CnBuilt(cn, "Tree", CnTree(cn.elems))
    /\ UNCHANGED <<tree, res, mc, mb, sq, lw, ad, lo, gd>>

CnMergeBroadcastAct ==
    /\ cn.op = "args"
    /\ cn' = CnBuilt(cn, "MergeBroadcast", CnMergeBroadcast(cn.elems, cn.merge))
    /\ UNCHANGED <<tree, res, mc, mb, sq, lw, ad, lo, gd>>

CnNext == CnTreeAct \/ CnMergeBroadcastAct

SpecConstruct == CnInit /\ [][CnNext]_vars

CnConstructed == cn.op \in {"Tree", "MergeBroadcast"}

CnHasOther == \E i \in 1..Len(cn.elems) : cn.elems[i].kind = "other"

CnBadMerge == cn.op = "MergeBroadcast" /\ cn.merge \notin MergeModes

\* Branch i is the Sequential of element i.
CnBranchOfElement(i) ==
    /\ cn.layers[i].from = i
    /\ cn.layers[i].layers = CnWrap(cn.elems[i]).layers

\* C20: construction makes one Sequential branch of every element, in input
\* order, so that the branches and the betas are as many as the elements;
\* an element that is no Sequential, list or Layer, and a merge mode that
\* is not recurrent, depth or stack, make the constructor fail.
C20_OneBranchPerElement ==
    CnConstructed =>
        /\ (CnHasOther \/ CnBadMerge) => cn.status # "ok"
        /\ cn.status = "ok" =>
              /\ Len(cn.layers) = Len(cn.elems)
              /\ Len(cn.betas) = Len(cn.elems)
              /\ \A i \in 1..Len(cn.layers) : CnBranchOfElement(i)

\* C20, what the constructors do: the elements that are a Sequential, a list
\* or a Layer become the branches, in order, the other elements are left
\* out without an error, there are as many betas as branches, and a merge
\* mode outside the three makes MergeBroadcast fail.
C20_KnownElementsInOrder ==
    (CnConstructed /\ cn.status = "ok") =>
        LET known == SelectSeq([i \in 1..Len(cn.elems) |-> i],
                               LAMBDA i : cn.elems[i].kind # "other")
        IN  /\ Len(cn.layers) = Len(known)
            /\ Len(cn.betas) = Len(known)
            /\ \A k \in 1..Len(known) :
                  /\ cn.layers[k].from = known[k]
                  /\ cn.layers[k].layers = CnWrap(cn.elems[known[k]]).layers
            /\ ~CnBadMerge

\* A Tree built without an error from a list that holds a tuple between two
\* layers: two branches for three elements.
C20_ElementDropped ==
    /\ cn.op = "Tree" /\ cn.status = "ok"
    /\ Len(cn.elems) = 3 /\ cn.elems[2] = CnOther
    /\ Len(cn.layers) = 2 /\ Len(cn.betas) = 2


(***************************************************************************)
(* allocate_deltas from the top-level Sequential through nested            *)
(* containers.  A node is a layer or a container; a container holds its    *)
(* Sequentials (the trunk of a ResidualModule, the sub-paths of a          *)
(* MergeBroadcast), each written as the sequence of its layers.            *)
(***************************************************************************)
MaxTop == 3

NdNode(type, kids) == [type |-> type, in_size |-> 1, kids |-> kids]

NdLayer == NdNode("Layer", <<>>)

\* A ResidualModule over a trunk of two layers, and a MergeBroadcast of two
\* sub-paths of one layer.
NdFlat == {NdNode("ResidualModule", <<(<<NdLayer, NdLayer>>)>>),
           NdNode("MergeBroadcast", <<(<<NdLayer>>), (<<NdLayer>>)>>)}

\* A container inside the trunk of a ResidualModule, and inside a sub-path
\* of a MergeBroadcast, alone or behind a layer.
NdNested ==
    {NdNode("ResidualModule", <<(<<NdLayer, NdLayer, c>>)>>) : c \in NdFlat}
        \cup {NdNode("MergeBroadcast", <<(<<NdLayer>>), (<<c>>)>>) : c \in NdFlat}
        \cup {NdNode("MergeBroadcast", <<(<<NdLayer, c>>), (<<NdLayer>>)>>) : c \in NdFlat}

NdNodes == {NdLayer} \cup NdFlat \cup NdNested

\* The layers of the top-level Sequential.
NdTops == UNION {[1..n -> NdNodes] : n \in 1..MaxTop}

\* delta_buffers[start:stop], a new list of the buffers start+1 .. stop.
PoolSlice(pool, start, stop) == Pool("slice", SubSeq(pool.bufs, start + 1, stop))

\* One set_deltas call on a ResidualModule or MergeBroadcast: the length of
\* the pool it got (-1 for None), its buffers, and the buffers the list
\* holds when the call returns.
NdCall(type, pool, after) ==
    [type |-> type, len |-> IF pool.isNone THEN -1 ELSE Len(pool.bufs),
     before |-> pool.bufs, after |-> after.bufs]

NdResult(status, pool, calls) == [status |-> status, pool |-> pool, calls |-> calls]

RECURSIVE NdAllocateDeltas(_, _), NdSetDeltas(_, _), NdLoop(_, _, _), NdPaths(_, _, _)

\* The calls made so far, followed by what came after them.
NdPrepend(calls, r) == NdResult(r.status, r.pool, calls \o r.calls)

\* The loop over a container's Sequentials after the i-th came to r.
NdPathsAfter(kids, i, pool, r) ==
    IF r.status # "ok" THEN NdResult(r.status, pool, r.calls)
    ELSE NdPrepend(r.calls, NdPaths(kids, i + 1, pool))

\* The loop of allocate_deltas after the i-th layer's set_deltas came to r,
\* which may have reversed the list.
NdLoopAfter(layers, i, r) ==
    IF r.status # "ok" THEN r
    ELSE NdPrepend(r.calls, NdLoop(layers, i + 1, r.pool))

\* The end of a container's set_deltas, r being what its sub-paths'
\* allocate_deltas and first layers' set_deltas came to: the list is
\* reversed in place.
NdReverse(node, pool, r) ==
    IF r.status # "ok" THEN NdResult(r.status, pool, <<NdCall(node.type, pool, pool)>> \o r.calls)
    ELSE NdResult("ok", [pool EXCEPT !.bufs = Reverse(@)],
                  <<NdCall(node.type, pool, [pool EXCEPT !.bufs = Reverse(@)])>> \o r.calls)

\* l.set_deltas(delta_buffers): a ResidualModule and a MergeBroadcast assert
\* four buffers (len() of None is a TypeError) and go through their
\* Sequentials; a layer takes a buffer and reverses the list.
NdSetDeltas(node, pool) ==
    IF node.type = "Layer"
    THEN NdResult("ok", LayerSetDeltasPool(pool).pool, <<>>)
    ELSE IF pool.isNone
         THEN NdResult("TypeError", pool, <<NdCall(node.type, pool, pool)>>)
    ELSE IF Len(pool.bufs) # 4
         THEN NdResult("AssertionError", pool, <<NdCall(node.type, pool, pool)>>)
    ELSE NdReverse(node, pool, NdPaths(node.kids, 1, pool))

\* After l.allocate_deltas(delta_buffers[1:3]) came to r:
\* l.layers[0].set_deltas(delta_buffers[0:1]).
NdFirstLayer(path, pool, r) ==
    IF r.status # "ok" THEN r
    ELSE NdPrepend(r.calls, NdSetDeltas(path[1], PoolSlice(pool, 0, 1)))

\* The loop of a container's set_deltas over its Sequentials, from the i-th
\* on, on the container's pool.
NdPaths(kids, i, pool) ==
    IF i > Len(kids) THEN NdResult("ok", pool, <<>>)
    ELSE NdPathsAfter(kids, i, pool,
                      NdFirstLayer(kids[i], pool,
                                   NdAllocateDeltas(kids[i], PoolSlice(pool, 1, 3))))

\* The loop `for l in self.layers: l.set_deltas(self.global_deltas)` from
\* the i-th layer on.
NdLoop(layers, i, pool) ==
    IF i > Len(layers) THEN NdResult("ok", pool, <<>>)
    ELSE NdLoopAfter(layers, i, NdSetDeltas(layers[i], pool))

\* Sequential.allocate_deltas(global_deltas)
NdAllocateDeltas(layers, global_deltas) ==
    NdLoop(layers, 1, IF Falsy(global_deltas) THEN NewPool(layers) ELSE global_deltas)

NdInit ==
    /\ \E layers \in NdTops :
          ad = [layers |-> layers, status |-> "ok", calls |-> <<>>,
                global_deltas |-> NoPool, op |-> "init"]
    /\ tree = Idle /\ res = Idle /\ mc = Idle /\ mb = Idle /\ sq = Idle /\ lw = Idle
    /\ lo = Idle /\ gd = Idle /\ cn = Idle

\* The state after allocate_deltas() on the top-level Sequential came to r.
NdAllocated(a, r) ==
    [a EXCEPT !.status = r.status, !.calls = r.calls, !.global_deltas = r.pool,
              !.op = "allocate_deltas"]

\* allocate_deltas() on the top-level Sequential, without a pool.
NdAllocateDeltasAct ==
    /\ ad.op = "init"
    /\ ad' = NdAllocated(ad, NdAllocateDeltas(ad.layers, NoPool))
    /\ UNCHANGED <<tree, res, mc, mb, sq, lw, lo, gd, cn>>

NdNext == NdAllocateDeltasAct

SpecNestedDeltas == NdInit /\ [][NdNext]_vars

SeqSet(s) == {s[k] : k \in 1..Len(s)}

\* C21: whatever the topology, allocate_deltas from the top-level container
\* ends without a failed pool-size assertion, every set_deltas of a
\* ResidualModule or MergeBroadcast gets a pool of exactly 4 buffers, and
\* the pool holds the same 4 buffers when the call returns.
C21_AlwaysPoolOfFour ==
    ad.op = "allocate_deltas" =>
        /\ ad.status = "ok"
        /\ \A k \in 1..Len(ad.calls) :
              /\ ad.calls[k].len = 4
              /\ SeqSet(ad.calls[k].after) = SeqSet(ad.calls[k].before)

\* C21, what holds: a set_deltas that got 4 buffers leaves the same 4 in
\* the list; a container that is a child of a top-level Sequential of two
\* or more layers gets 4 buffers; the only call that gets another pool is
\* the last one made, and allocate_deltas then ends with its error.
C21_FourOrFails ==
    ad.op = "allocate_deltas" =>
        /\ \A k \in 1..Len(ad.calls) :
              /\ SeqSet(ad.calls[k].after) = SeqSet(ad.calls[k].before)
              /\ ad.calls[k].len # 4 => (k = Len(ad.calls) /\ ad.status # "ok")
        /\ ad.status = "ok" => \A k \in 1..Len(ad.calls) : ad.calls[k].len = 4
        /\ (Len(ad.layers) >= 2 /\ ad.layers \in [1..Len(ad.layers) -> {NdLayer} \cup NdFlat])
               => ad.status = "ok"

\* A ResidualModule as the only child: its set_deltas gets None.
C21_OnlyChildGetsNone ==
    /\ ad.op = "allocate_deltas" /\ Len(ad.layers) = 1
    /\ ad.layers[1].type = "ResidualModule"
    /\ ad.status = "TypeError" /\ ad.calls[1].len = -1

\* A container nested in a sub-path: its set_deltas gets 2 buffers.
C21_NestedGetsTwo ==
    /\ ad.op = "allocate_deltas" /\ Len(ad.layers) = 2
    /\ ad.layers[2].type = "MergeBroadcast"
    /\ ad.status = "AssertionError"
    /\ Len(ad.calls) = 2 /\ ad.calls[1].len = 4 /\ ad.calls[2].len = 2

====
